---------------------------- MODULE Spec2Model ----------------------------
(***************************************************************************)
(* A model of compreffor/pyCompressor.py: the CFF charstring               *)
(* subroutinizer.  The pipeline is                                         *)
(*   process_chstrings -> get_suffixes -> get_lcp -> get_substrings        *)
(*   -> iterative_encode (NROUNDS market rounds) -> process_subrs          *)
(*   -> apply_subrs.                                                       *)
(*                                                                         *)
(* Python lists are TLA+ sequences.  The source's indices are 0-based and  *)
(* are kept 0-based as values; At and Slice do the conversion.             *)
(***************************************************************************)
EXTENDS Integers, Sequences, FiniteSets, TLC

(***************************************************************************)
(* Bounds of the model.                                                    *)
(***************************************************************************)
\* longest glyph program of the enumerated family, in units (a unit is one
\* plain token or a hintmask operator with its mask bytes)
MaxLen == 4
\* number of glyphs in a corpus of the enumerated family
MaxGlyphs == 2
\* largest nrounds argument
MaxRounds == 2
\* largest nsubrs_limit argument
MaxSubrLimit == 2
\* largest nest_limit argument of process_subrs
MaxNestLimit == 2
\* prices are floats in the source; here they are fixed-point numbers
\* counted in units of 1/PRICE_SCALE, each operation rounded to nearest
PRICE_SCALE == 65536

(***************************************************************************)
(* Generic helpers for Python list semantics.                              *)
(***************************************************************************)
Min2(a, b) == IF a < b THEN a ELSE b
Max2(a, b) == IF a > b THEN a ELSE b

\* s[i] with a 0-based index
At(s, i) == s[i + 1]

\* s[i:j] with 0-based bounds, clamped as Python clamps them
Slice(s, i, j) == SubSeq(s, Max2(i, 0) + 1, Min2(j, Len(s)))

\* s[i:]
SliceFrom(s, i) == Slice(s, i, Len(s))

\* range(n) as a sequence 0 .. n-1
Range0(n) == [k \in 1..n |-> k - 1]

RECURSIVE SumSeq(_)
SumSeq(s) == IF s = <<>> THEN 0 ELSE s[1] + SumSeq(Tail(s))

RECURSIVE Concat(_)
\* itertools.chain(*lists)
Concat(ss) == IF ss = <<>> THEN <<>> ELSE ss[1] \o Concat(Tail(ss))

SeqToSet(s) == {s[k] : k \in 1..Len(s)}

\* Python's comparison of two tuples of ints: a < b
RECURSIVE LexLess(_, _)
LexLess(a, b) ==
    IF b = <<>> THEN FALSE
    ELSE IF a = <<>> THEN TRUE
    ELSE IF a[1] # b[1] THEN a[1] < b[1]
    ELSE LexLess(Tail(a), Tail(b))

\* division of fixed-point numbers, rounded to nearest (b # 0)
RoundDiv(a, b) ==
    IF b > 0 THEN (2 * a + b) \div (2 * b) ELSE (b - 2 * a) \div (-2 * b)

\* an int as a fixed-point number
Fix(n) == n * PRICE_SCALE

(***************************************************************************)
(* Tokens.  A token of a charstring program is a Python str (an operator   *)
(* name, or the mask bytes that follow hintmask/cntrmask), an int, a       *)
(* float, or the tuple (mask-op, mask-bytes) built by process_chstrings    *)
(* and collapse_hintmask.  Every token is a record of the same shape so    *)
(* that tokens compare: kind says which Python type it is.                 *)
(***************************************************************************)
StrTok(name) == [kind |-> "str", s |-> name, m |-> "", n |-> 0]
IntTok(v) == [kind |-> "int", s |-> "", m |-> "", n |-> v]
FloatTok(v) == [kind |-> "float", s |-> "", m |-> "", n |-> v]
TupleTok(op, mask) == [kind |-> "tuple", s |-> op, m |-> mask, n |-> 0]

SINGLE_BYTE_OPS ==
    {"hstem", "vstem", "vmoveto", "rlineto", "hlineto", "vlineto",
     "rrcurveto", "callsubr", "return", "endchar", "blend", "hstemhm",
     "hintmask", "cntrmask", "rmoveto", "hmoveto", "vstemhm", "rcurveline",
     "rlinecurve", "vvcurveto", "hhcurveto", "callgsubr", "vhcurveto",
     "hvcurveto"}

MaskOps == {"hintmask", "cntrmask"}

\* tok in ("hintmask", "cntrmask"): true of a str equal to one of the names
IsMaskOp(tok) == tok.kind = "str" /\ tok.s \in MaskOps

\* The first branch of the source (a str that starts with "hintmask" or
\* "cntrmask" costs 1 + len(token[9:])) is modelled for the two names
\* themselves, for which token[9:] is empty.
tokenCost(token) ==
    IF token.kind = "str" THEN
        IF token.s \in MaskOps THEN 1 + 0
        ELSE IF token.s \in SINGLE_BYTE_OPS THEN 1
        ELSE 2
    ELSE IF token.kind = "tuple" THEN 1 + Len(token.m)
    ELSE IF token.kind = "int" THEN
        IF -107 <= token.n /\ token.n <= 107 THEN 1
        ELSE IF (108 <= token.n /\ token.n <= 1131)
                \/ (-1131 <= token.n /\ token.n <= -108) THEN 2
        ELSE 3
    ELSE 5

(***************************************************************************)
(* SubstringFinder.process_chstrings: remap the tokens of every glyph to   *)
(* a simple integer alphabet.  The keymap is kept as rev_keymap (the code  *)
(* of a token is its 0-based position there).                              *)
(***************************************************************************)
\* equality of two tokens as keys of the dict keymap: an int and a float
\* of the same value are equal and hash alike
PyEq(a, b) ==
    \/ a = b
    \/ /\ a.kind \in {"int", "float"}
       /\ b.kind \in {"int", "float"}
       /\ a.n = b.n

\* keymap[tok], or -1 when tok is not in keymap
KeyOf(rev, tok) ==
    IF \E k \in 1..Len(rev) : PyEq(rev[k], tok)
    THEN (CHOOSE k \in 1..Len(rev) : PyEq(rev[k], tok)) - 1
    ELSE -1

\* the input contract asserted at lines 274-275, and the mask bytes that
\* next(piter) needs after a mask operator
RECURSIVE WellFormedFrom(_, _)
WellFormedFrom(program, i) ==
    IF i >= Len(program) THEN TRUE
    ELSE LET tok == At(program, i) IN
         /\ ~(tok.kind = "str" /\ tok.s \in {"callsubr", "callgsubr", "return"})
         /\ (tok = StrTok("endchar") => i = Len(program) - 1)
         /\ IF IsMaskOp(tok)
            THEN i + 1 < Len(program) /\ WellFormedFrom(program, i + 2)
            ELSE WellFormedFrom(program, i + 1)

WellFormed(program) == WellFormedFrom(program, 0)

\* the loop over the tokens of one charstring; st = [rev, costs, program]
RECURSIVE RemapTokens(_, _, _)
RemapTokens(chprogram, i, st) ==
    IF i >= Len(chprogram) THEN st
    ELSE LET raw == At(chprogram, i)
             fused == IsMaskOp(raw)
             tok == IF fused THEN TupleTok(raw.s, At(chprogram, i + 1).s)
                    ELSE raw
             known == KeyOf(st.rev, tok) >= 0
             rev1 == IF known THEN st.rev ELSE Append(st.rev, tok)
             costs1 == IF known THEN st.costs
                       ELSE Append(st.costs, tokenCost(tok))
         IN RemapTokens(chprogram, IF fused THEN i + 2 ELSE i + 1,
                        [rev |-> rev1, costs |-> costs1,
                         program |-> Append(st.program, KeyOf(rev1, tok))])

\* the loop over the glyphs; acc = [rev, costs, data, suffixes]
RECURSIVE RemapGlyphs(_, _, _)
RemapGlyphs(glyphs, g, acc) ==
    IF g >= Len(glyphs) THEN acc
    ELSE LET r == RemapTokens(At(glyphs, g), 0,
                              [rev |-> acc.rev, costs |-> acc.costs,
                               program |-> <<>>])
             chstr_len == Len(r.program)
         IN RemapGlyphs(glyphs, g + 1,
                [rev |-> r.rev, costs |-> r.costs,
                 data |-> Append(acc.data, r.program),
                 suffixes |-> acc.suffixes
                              \o [x \in 1..chstr_len |-> <<g, x - 1>>]])

process_chstrings(glyphs) ==
    RemapGlyphs(glyphs, 0,
                [rev |-> <<>>, costs |-> <<>>, data |-> <<>>, suffixes |-> <<>>])

(***************************************************************************)
(* SubstringFinder.get_suffixes: list.sort with the suffix as key.         *)
(* Python's sort is stable, so equal suffixes keep their order.            *)
(***************************************************************************)
SuffixKey(d, idx) == SliceFrom(At(d, idx[1]), idx[2])

\* insert x behind every element whose key is not greater than x's
RECURSIVE InsertSuffix(_, _, _)
InsertSuffix(d, sorted, x) ==
    IF sorted = <<>> THEN <<x>>
    ELSE IF LexLess(SuffixKey(d, x), SuffixKey(d, sorted[1]))
         THEN <<x>> \o sorted
         ELSE <<sorted[1]>> \o InsertSuffix(d, Tail(sorted), x)

RECURSIVE SortSuffixesFrom(_, _, _, _)
SortSuffixesFrom(d, suf, k, sorted) ==
    IF k > Len(suf) THEN sorted
    ELSE SortSuffixesFrom(d, suf, k + 1, InsertSuffix(d, sorted, suf[k]))

get_suffixes(d, suf) == SortSuffixesFrom(d, suf, 1, <<>>)

(***************************************************************************)
(* SubstringFinder.get_lcp: Kasai's algorithm over the glyphs.             *)
(***************************************************************************)
\* rank[glyph_idx][tok_idx] = i where suffixes[i] = (glyph_idx, tok_idx)
RankOf(suf, g, t) == (CHOOSE i \in 1..Len(suf) : suf[i] = <<g, t>>) - 1

\* the while loop of lines 340-343
RECURSIVE ExtendMatch(_, _, _, _, _)
ExtendMatch(last_chstring, last_tidx, chstring, tok_idx, cur_h) ==
    IF /\ last_tidx + cur_h < Len(last_chstring)
       /\ tok_idx + cur_h < Len(chstring)
       /\ At(last_chstring, last_tidx + cur_h) = At(chstring, tok_idx + cur_h)
    THEN ExtendMatch(last_chstring, last_tidx, chstring, tok_idx, cur_h + 1)
    ELSE cur_h

\* KasaiDecrement with lines 346-347 left out
KasaiKeep(cur_h) == cur_h

\* the update of cur_h at the end of one step of the token loop
KasaiDecrement(cur_h) == IF cur_h > 0 THEN cur_h - 1 ELSE cur_h

\* the loop over the tokens of glyph g; st = [lcp, cur_h]
RECURSIVE LcpTokens(_, _, _, _, _)
LcpTokens(d, suf, g, tok_idx, st) ==
    IF tok_idx >= Len(At(d, g)) THEN st.lcp
    ELSE LET cur_rank == RankOf(suf, g, tok_idx) IN
         IF cur_rank > 0
         THEN LET last == At(suf, cur_rank - 1)
                  h == ExtendMatch(At(d, last[1]), last[2], At(d, g),
                                   tok_idx, st.cur_h)
              IN LcpTokens(d, suf, g, tok_idx + 1,
                           [lcp |-> [st.lcp EXCEPT ![cur_rank + 1] = h],
                            cur_h |-> KasaiDecrement(h)])
         ELSE LcpTokens(d, suf, g, tok_idx + 1, st)

RECURSIVE LcpGlyphs(_, _, _, _)
LcpGlyphs(d, suf, g, lcparr) ==
    IF g >= Len(d) THEN lcparr
    ELSE LcpGlyphs(d, suf, g + 1,
                   LcpTokens(d, suf, g, 0, [lcp |-> lcparr, cur_h |-> 0]))

get_lcp(d, suf) == LcpGlyphs(d, suf, 0, [k \in 1..Len(suf) |-> 0])

(***************************************************************************)
(* CandidateSubr.  Objects live in a store, a sequence of records; an      *)
(* object is named by its position there (its creation order in            *)
(* get_substrings), and lists of objects are sequences of such names.      *)
(* None is Python's None, and stands for an attribute that is not set.     *)
(***************************************************************************)
None == -1

CALL_COST == 5
SUBR_OVERHEAD == 3

\* CandidateSubr.__init__; the attributes that the source attaches later
\* are present from the start and hold None (or an empty list) until set
CandidateSubr(length, ref_loc, freq) ==
    [length |-> length, location |-> ref_loc, freq |-> freq,
     global |-> FALSE, flatten |-> FALSE, fdidx |-> <<>>,
     adjusted_cost |-> None, price |-> None, usages |-> None,
     list_idx |-> None, encoding |-> <<>>, max_call_depth |-> None,
     position |-> None, program |-> <<>>, has_program |-> FALSE]

\* CandidateSubr.value
value(d, c) ==
    Slice(At(d, c.location[1]), c.location[2], c.location[2] + c.length)

\* CandidateSubr.cost
cost(d, cm, c) == SumSeq([k \in 1..c.length |-> At(cm, value(d, c)[k])])

\* CandidateSubr.real_cost; st is the store, o names the object
RECURSIVE real_cost(_, _, _, _)
real_cost(d, cm, st, o) ==
    cost(d, cm, st[o])
    + SumSeq([k \in 1..Len(st[o].encoding) |->
                LET it == st[o].encoding[k][2] IN
                IF ~st[it].flatten THEN CALL_COST - cost(d, cm, st[it])
                ELSE real_cost(d, cm, st, it)])

\* saving with the cost of the calls left out
savingWithoutCalls(c, amt) == c * amt - c - SUBR_OVERHEAD

\* the return expression of subr_saving
saving(c, amt) == c * amt - c - CALL_COST * amt - SUBR_OVERHEAD

\* CandidateSubr.subr_saving
subr_saving(d, cm, st, o, use_usages, true_cost) ==
    saving(IF true_cost THEN real_cost(d, cm, st, o) ELSE cost(d, cm, st[o]),
           IF use_usages THEN st[o].usages ELSE st[o].freq)

(***************************************************************************)
(* list.sort(key=..., reverse=...) on a list of items with integer keys:   *)
(* stable in both directions: an item comes before another when its key    *)
(* is better, or equal and it came first.  key is a function from items to *)
(* Int.  A list that is in order already is the result as it is.           *)
(***************************************************************************)
ListSort(items, key, reverse) ==
    LET n == Len(items)
        \* items[j] comes before items[i] in the sorted list
        Before(j, i) ==
            \/ IF reverse THEN key[items[j]] > key[items[i]]
               ELSE key[items[j]] < key[items[i]]
            \/ key[items[j]] = key[items[i]] /\ j < i
        place == <<>> \o [i \in 1..n |->
                            1 + Cardinality({j \in 1..n : Before(j, i)})]
    IN IF \A i \in 1..(n - 1) : Before(i, i + 1) THEN items
       ELSE <<>> \o [p \in 1..n |-> items[CHOOSE i \in 1..n : place[i] = p]]

(***************************************************************************)
(* SubstringFinder.get_substrings: the sweep of the LCP array with the     *)
(* stack start_indices.  sw = [stack, objs, kept]: objs are the            *)
(* CandidateSubr objects constructed at line 389, kept the names of those  *)
(* appended to self.substrings, popped the intervals <<l, start_idx, freq>> *)
(* taken off the stack at line 384, in order.                              *)
(***************************************************************************)
\* TooRare with <= for <
TooRareInclusive(freq, min_freq) == freq <= min_freq

\* the test of line 386: the popped interval is dropped
TooRare(freq, min_freq) == freq < min_freq

\* KeepCandidate with >= for >
KeepCandidateNonNegative(d, cm, c, check_positive) ==
    saving(cost(d, cm, c), c.freq) >= 0 \/ ~check_positive

\* the test of line 395
KeepCandidate(d, cm, c, check_positive) ==
    saving(cost(d, cm, c), c.freq) > 0 \/ ~check_positive

\* the while loop of lines 383-396 at rank i
RECURSIVE PopIntervals(_, _, _, _, _, _, _, _)
PopIntervals(d, cm, suf, i, min_l, sw, min_freq, check_positive) ==
    IF sw.stack # <<>> /\ sw.stack[Len(sw.stack)][1] > min_l
    THEN LET top == sw.stack[Len(sw.stack)]
             rest == SubSeq(sw.stack, 1, Len(sw.stack) - 1)
             l == top[1]
             start_idx == top[2]
             freq == i - start_idx
             substr == CandidateSubr(l, At(suf, start_idx), freq)
             objs1 == Append(sw.objs, substr)
             popped1 == Append(sw.popped, <<l, start_idx, freq>>)
         IN IF TooRare(freq, min_freq)
            THEN PopIntervals(d, cm, suf, i, min_l,
                              [sw EXCEPT !.stack = rest, !.popped = popped1],
                              min_freq, check_positive)
            ELSE PopIntervals(d, cm, suf, i, min_l,
                    [stack |-> rest, objs |-> objs1,
                     kept |-> IF KeepCandidate(d, cm, substr, check_positive)
                              THEN Append(sw.kept, Len(objs1))
                              ELSE sw.kept,
                     popped |-> popped1],
                    min_freq, check_positive)
    ELSE sw

\* the test of line 398
PushesInterval(stack, min_l) ==
    stack = <<>> \/ min_l > stack[Len(stack)][1]

\* the for loop of line 376
RECURSIVE SweepLcp(_, _, _, _, _, _, _, _)
SweepLcp(d, cm, suf, lcparr, i, sw, min_freq, check_positive) ==
    IF i >= Len(lcparr) THEN sw
    ELSE LET min_l == At(lcparr, i)
             p == PopIntervals(d, cm, suf, i, min_l, sw, min_freq,
                               check_positive)
         IN SweepLcp(d, cm, suf, lcparr, i + 1,
                     IF PushesInterval(p.stack, min_l)
                     THEN [p EXCEPT !.stack = Append(p.stack, <<min_l, i - 1>>)]
                     ELSE p,
                     min_freq, check_positive)

\* returns [objs, substrings, popped]: the store, the sorted list (line 408)
\* and the intervals popped on the way
get_substrings(d, cm, suf, lcparr, min_freq, check_positive) ==
    LET sw == SweepLcp(d, cm, suf, lcparr, 0,
                       [stack |-> <<>>, objs |-> <<>>, kept |-> <<>>,
                        popped |-> <<>>],
                       min_freq, check_positive)
        key == [o \in 1..Len(sw.objs) |->
                    saving(cost(d, cm, sw.objs[o]), sw.objs[o].freq)]
    IN [objs |-> sw.objs, substrings |-> ListSort(sw.kept, key, TRUE),
        popped |-> sw.popped]

(***************************************************************************)
(* optimize_charstring: the dynamic program of iterative_encode.           *)
(* substr_dict maps a value (a tuple of codes) to <<idx, price>>.  Costs   *)
(* and prices are fixed-point numbers; skip_idx is None for a glyph.       *)
(***************************************************************************)
\* float("inf")
Inf == None

\* OptionLess with <= for <
OptionLessOrEqual(option, min_option) ==
    min_option = Inf \/ option <= min_option

\* option < min_option
OptionLess(option, min_option) == min_option = Inf \/ option < min_option

\* the loop over j of lines 961-981; b = [min_option, min_enc_idx,
\* min_enc_substr, cur_cost, assert_ok]
RECURSIVE ScanEnds(_, _, _, _, _, _, _, _)
ScanEnds(charstring, cm, sd, skip_idx, results, i, j, b) ==
    IF j > Len(charstring) THEN b
    ELSE LET cur_cost == b.cur_cost + Fix(At(cm, At(charstring, j - 1)))
             key == Slice(charstring, i, j)
             hit == key \in DOMAIN sd
             usable == hit /\ sd[key][1] # skip_idx
             option == IF usable THEN sd[key][2] + At(results, j)
                       ELSE cur_cost + At(results, j)
             substr == IF usable THEN sd[key][1] ELSE None
             ok == (hit /\ ~usable) => (i = 0 /\ j = Len(charstring))
             better == OptionLess(option, b.min_option)
         IN ScanEnds(charstring, cm, sd, skip_idx, results, i, j + 1,
                [min_option |-> IF better THEN option ELSE b.min_option,
                 min_enc_idx |-> IF better THEN j ELSE b.min_enc_idx,
                 min_enc_substr |-> IF better THEN substr ELSE b.min_enc_substr,
                 cur_cost |-> cur_cost,
                 assert_ok |-> b.assert_ok /\ ok])

\* the loop over i of lines 956-985, from i down to 0; t = [results,
\* next_enc_idx, next_enc_substr, assert_ok], the arrays indexed from 0
RECURSIVE FillTable(_, _, _, _, _, _)
FillTable(charstring, cm, sd, skip_idx, i, t) ==
    IF i < 0 THEN t
    ELSE LET b == ScanEnds(charstring, cm, sd, skip_idx, t.results, i, i + 1,
                           [min_option |-> Inf,
                            min_enc_idx |-> Len(charstring),
                            min_enc_substr |-> None,
                            cur_cost |-> 0,
                            assert_ok |-> TRUE])
         IN FillTable(charstring, cm, sd, skip_idx, i - 1,
                [results |-> [t.results EXCEPT ![i + 1] = b.min_option],
                 next_enc_idx |-> [t.next_enc_idx EXCEPT ![i + 1] = b.min_enc_idx],
                 next_enc_substr |->
                     [t.next_enc_substr EXCEPT ![i + 1] = b.min_enc_substr],
                 assert_ok |-> t.assert_ok /\ b.assert_ok])

\* the while loop of lines 991-999
RECURSIVE WalkEncoding(_, _, _)
WalkEncoding(t, cur_enc_idx, encoding) ==
    IF cur_enc_idx >= Len(t.next_enc_idx) THEN encoding
    ELSE LET cur_enc_substr == At(t.next_enc_substr, cur_enc_idx) IN
         WalkEncoding(t, At(t.next_enc_idx, cur_enc_idx),
                      IF cur_enc_substr # None
                      THEN Append(encoding, <<cur_enc_idx, cur_enc_substr>>)
                      ELSE encoding)

optimize_charstring(charstring, cm, sd, skip_idx) ==
    LET n == Len(charstring)
        t == FillTable(charstring, cm, sd, skip_idx, n - 1,
                       [results |-> [k \in 1..(n + 1) |-> 0],
                        next_enc_idx |-> [k \in 1..n |-> None],
                        next_enc_substr |-> [k \in 1..n |-> None],
                        assert_ok |-> TRUE])
    IN [encoding |-> WalkEncoding(t, 0, <<>>),
        market_cost |-> At(t.results, 0),
        assert_ok |-> t.assert_ok]

(***************************************************************************)
(* Compreffor.iterative_encode: the steps of one market round, as          *)
(* functions of the store st, the active list subs and the dictionary sd.  *)
(***************************************************************************)
\* ALPHA = 0.1 and K = 0.1, counted in tenths
ALPHA_TENTHS == 1
K_TENTHS == 1

\* lines 630-631 for one substring
CalibratedPrice(c) ==
    LET marg_cost == RoundDiv(10 * c.adjusted_cost, 10 * c.usages + K_TENTHS)
    IN RoundDiv(ALPHA_TENTHS * marg_cost + (10 - ALPHA_TENTHS) * c.price, 10)

\* dict with sd[key] = val set
DictSet(sd, key, val) ==
    [k \in DOMAIN sd \cup {key} |-> IF k = key THEN val ELSE sd[k]]

\* DictDel that leaves the entry in place
DictDelNothing(sd, key) == sd

\* del sd[key]
DictDel(sd, key) == [k \in DOMAIN sd \ {key} |-> sd[k]]

\* lines 617-623: the initial values; m = [st, sd]
RECURSIVE SetUpFrom(_, _, _, _, _)
SetUpFrom(d, cm, subs, idx, m) ==
    IF idx >= Len(subs) THEN m
    ELSE LET o == At(subs, idx)
             c == cost(d, cm, m.st[o])
             c1 == [m.st[o] EXCEPT !.adjusted_cost = Fix(c),
                                   !.price = Fix(c),
                                   !.usages = m.st[o].freq,
                                   !.list_idx = idx]
         IN SetUpFrom(d, cm, subs, idx + 1,
                [st |-> [m.st EXCEPT ![o] = c1],
                 sd |-> DictSet(m.sd, value(d, c1), <<idx, c1.price>>)])

\* lines 629-632: calibrate prices; m = [st, sd]
RECURSIVE CalibrateFrom(_, _, _, _)
CalibrateFrom(d, subs, idx, m) ==
    IF idx >= Len(subs) THEN m
    ELSE LET o == At(subs, idx)
             c1 == [m.st[o] EXCEPT !.price = CalibratedPrice(m.st[o])]
         IN CalibrateFrom(d, subs, idx + 1,
                [st |-> [m.st EXCEPT ![o] = c1],
                 sd |-> DictSet(m.sd, value(d, c1), <<idx, c1.price>>)])

\* [(enc_item[0], substrings[enc_item[1]]) for enc_item in result["encoding"]]
ResolveEncoding(subs, encoding) ==
    [k \in 1..Len(encoding) |-> <<encoding[k][1], At(subs, encoding[k][2])>>]

\* EncodeSubstrings with no substring skipping its own entry
EncodeSubstringsNoSkip(d, cm, st, subs, sd) ==
    LET substr_encodings ==
            [k \in 1..Len(subs) |->
                optimize_charstring(value(d, st[subs[k]]), cm, sd, None)]
        IdxOf(o) == CHOOSE k \in 1..Len(subs) : subs[k] = o
    IN [o \in 1..Len(st) |->
            IF o \in SeqToSet(subs)
            THEN [st[o] EXCEPT
                    !.encoding = ResolveEncoding(subs,
                                    substr_encodings[IdxOf(o)].encoding),
                    !.adjusted_cost = substr_encodings[IdxOf(o)].market_cost]
            ELSE st[o]]

\* lines 636-646: every substring encoded against the dictionary, then stored
EncodeSubstrings(d, cm, st, subs, sd) ==
    LET substr_encodings ==
            [k \in 1..Len(subs) |->
                optimize_charstring(value(d, st[subs[k]]), cm, sd, k - 1)]
        IdxOf(o) == CHOOSE k \in 1..Len(subs) : subs[k] = o
    IN [o \in 1..Len(st) |->
            IF o \in SeqToSet(subs)
            THEN [st[o] EXCEPT
                    !.encoding = ResolveEncoding(subs,
                                    substr_encodings[IdxOf(o)].encoding),
                    !.adjusted_cost = substr_encodings[IdxOf(o)].market_cost]
            ELSE st[o]]

\* lines 650-656: every glyph encoded against the dictionary
EncodeCharstrings(d, cm, subs, sd) ==
    [g \in 1..Len(d) |->
        ResolveEncoding(subs, optimize_charstring(d[g], cm, sd, None).encoding)]

\* number of items of the encoding enc that name object o
CallsIn(enc, o) == Cardinality({k \in 1..Len(enc) : enc[k][2] = o})

\* RecountUsages with the loop of lines 662-665 left out
RecountGlyphsOnly(st, subs, encs) ==
    [o \in 1..Len(st) |->
        IF o \in SeqToSet(subs)
        THEN [st[o] EXCEPT !.usages =
                SumSeq([g \in 1..Len(encs) |-> CallsIn(encs[g], o)])]
        ELSE st[o]]

\* lines 659-669: usages reset, then one per call site of an active
\* substring's encoding and of a glyph's encoding
RecountUsages(st, subs, encs) ==
    [o \in 1..Len(st) |->
        LET calls == SumSeq([k \in 1..Len(subs) |->
                                CallsIn(st[subs[k]].encoding, o)])
                     + SumSeq([g \in 1..Len(encs) |-> CallsIn(encs[g], o)])
        IN IF o \in SeqToSet(subs) THEN [st[o] EXCEPT !.usages = calls]
           ELSE IF calls > 0 THEN [st[o] EXCEPT !.usages = st[o].usages + calls]
           ELSE st[o]]

\* PrunesInRound without the test on the round
PrunesInEveryRound(run_count, nrounds, test_mode) == ~test_mode

\* the condition of line 677
PrunesInRound(run_count, nrounds, test_mode) ==
    run_count <= nrounds - 2 /\ ~test_mode

\* the test of lines 680-684 (both branches use the same saving)
IsBad(d, cm, st, o) == subr_saving(d, cm, st, o, TRUE, FALSE) <= 0

\* s such that the items of s are those of seq that satisfy keep
RECURSIVE FilterSeq(_, _)
FilterSeq(seq, keep) ==
    IF seq = <<>> THEN <<>>
    ELSE (IF seq[1] \in keep THEN <<seq[1]>> ELSE <<>>)
         \o FilterSeq(Tail(seq), keep)

\* line 689 over the encoding of one bad substring, item by item
RECURSIVE Redistribute(_, _, _)
Redistribute(st, bad, k) ==
    IF k > Len(st[bad].encoding) THEN st
    ELSE LET called == st[bad].encoding[k][2] IN
         Redistribute([st EXCEPT ![called].usages =
                            st[called].usages + st[bad].usages - 1],
                      bad, k + 1)

\* lines 686-690 over the bad substrings; m = [st, sd]
RECURSIVE PruneFrom(_, _, _, _)
PruneFrom(d, bad_substrings, k, m) ==
    IF k > Len(bad_substrings) THEN m
    ELSE LET st1 == Redistribute(m.st, bad_substrings[k], 1) IN
         PruneFrom(d, bad_substrings, k + 1,
             [st |-> st1,
              sd |-> DictDel(m.sd, value(d, st1[bad_substrings[k]]))])

\* lines 691-692
Reindex(st, subs) ==
    [o \in 1..Len(st) |->
        IF o \in SeqToSet(subs)
        THEN [st[o] EXCEPT !.list_idx =
                    (CHOOSE k \in 1..Len(subs) : subs[k] = o) - 1]
        ELSE st[o]]

(***************************************************************************)
(* Compreffor.process_subrs, part 1: reachability, the survivors and the   *)
(* budgeted assignment.  fdselect is the sequence of the glyphs' fd        *)
(* indices, and the empty sequence when the argument is None.              *)
(***************************************************************************)
\* mark_reachable (lines 724-732), and its loop over an encoding
RECURSIVE mark_reachable(_, _, _)
RECURSIVE MarkEncoding(_, _, _, _)
\* mark_reachable recording only the first fd that reaches a substring
MarkReachableFirstFd(st, cand_subr, fdidx) ==
    LET st1 == IF st[cand_subr].fdidx # <<>> THEN st
               ELSE [st EXCEPT ![cand_subr].fdidx = Append(@, fdidx)]
    IN MarkEncoding(st1, st1[cand_subr].encoding, 1, fdidx)

mark_reachable(st, cand_subr, fdidx) ==
    LET st1 == IF fdidx \in SeqToSet(st[cand_subr].fdidx) THEN st
               ELSE [st EXCEPT ![cand_subr].fdidx = Append(@, fdidx)]
    IN MarkEncoding(st1, st1[cand_subr].encoding, 1, fdidx)

MarkEncoding(st, enc, k, fdidx) ==
    IF k > Len(enc) THEN st
    ELSE MarkEncoding(mark_reachable(st, enc[k][2], fdidx), enc, k + 1, fdidx)

\* fdselect(g), or 0 when fdselect is None (lines 733-741)
SelOf(fdsel, g) == IF fdsel = <<>> THEN 0 ELSE At(fdsel, g)

RECURSIVE MarkGlyphs(_, _, _, _)
\* MarkGlyphs that stops after one glyph
MarkGlyphsOnlyOne(st, encs, fdsel, g) ==
    IF g >= Len(encs) THEN st
    ELSE MarkEncoding(st, At(encs, g), 1, SelOf(fdsel, g))

MarkGlyphs(st, encs, fdsel, g) ==
    IF g >= Len(encs) THEN st
    ELSE MarkGlyphs(MarkEncoding(st, At(encs, g), 1, SelOf(fdsel, g)),
                    encs, fdsel, g + 1)

\* the condition of line 743
Survives(d, cm, st, o) ==
    /\ st[o].usages > 0
    /\ st[o].fdidx # <<>>
    /\ subr_saving(d, cm, st, o, TRUE, TRUE) > 0

\* map(set_flatten, objs)
SetFlatten(st, objs) ==
    [o \in 1..Len(st) |->
        IF o \in SeqToSet(objs) THEN [st[o] EXCEPT !.flatten = TRUE] ELSE st[o]]

\* lines 743-755: a = [st, subrs, bad, gsubrs, lsubrs]
FilterSurvivors(d, cm, st, subs, fdlen) ==
    LET good == {o \in SeqToSet(subs) : Survives(d, cm, st, o)}
        subrs0 == FilterSeq(subs, good)
        bad == FilterSeq(subs, SeqToSet(subs) \ good)
        st1 == SetFlatten(st, bad)
        key == [o \in 1..Len(st1) |-> subr_saving(d, cm, st1, o, TRUE, TRUE)]
    IN [st |-> st1,
        subrs |-> ListSort(subrs0, key, FALSE),
        bad |-> bad,
        gsubrs |-> <<>>,
        lsubrs |-> [k \in 1..fdlen |-> <<>>]]

\* Compreffor.test_call_cost
test_call_cost(st, subr, subrs) ==
    IF Len(subrs) >= 2263 /\ st[At(subrs, 2262)].usages >= st[subr].usages
    THEN 3
    ELSE IF Len(subrs) >= 215 /\ st[At(subrs, 214)].usages >= st[subr].usages
    THEN 2
    ELSE 1

\* Compreffor.insert_by_usage
insert_by_usage(st, subr, subrs) ==
    ListSort(Append(subrs, subr), [o \in 1..Len(st) |-> st[o].usages], TRUE)

\* HasRoom with <= for <
HasRoomUpTo(table, subr_limit) == Len(table) <= subr_limit

\* len(table) < subr_limit
HasRoom(table, subr_limit) == Len(table) < subr_limit

\* the condition of the while loop of lines 757-758
AssignContinues(a, subr_limit) ==
    /\ a.subrs # <<>>
    /\ \/ \E k \in 1..Len(a.lsubrs) : HasRoom(a.lsubrs[k], subr_limit)
       \/ HasRoom(a.gsubrs, subr_limit)

\* Placement with ties going to the global table
PlacementTieGlobal(a, subr, subr_limit) ==
    IF Len(a.st[subr].fdidx) = 1 THEN
        LET lsub_index == At(a.lsubrs, a.st[subr].fdidx[1]) IN
        IF HasRoom(a.gsubrs, subr_limit) THEN
            IF HasRoom(lsub_index, subr_limit) THEN
                IF test_call_cost(a.st, subr, a.gsubrs)
                   <= test_call_cost(a.st, subr, lsub_index)
                THEN "global" ELSE "local"
            ELSE "global"
        ELSE IF HasRoom(lsub_index, subr_limit) THEN "local"
        ELSE "skip"
    ELSE IF HasRoom(a.gsubrs, subr_limit) THEN "global"
    ELSE "skip"

\* where the popped subr goes (lines 761-791): "global", "local" or "skip"
Placement(a, subr, subr_limit) ==
    IF Len(a.st[subr].fdidx) = 1 THEN
        LET lsub_index == At(a.lsubrs, a.st[subr].fdidx[1]) IN
        IF HasRoom(a.gsubrs, subr_limit) THEN
            IF HasRoom(lsub_index, subr_limit) THEN
                IF test_call_cost(a.st, subr, a.gsubrs)
                   < test_call_cost(a.st, subr, lsub_index)
                THEN "global" ELSE "local"
            ELSE "global"
        ELSE IF HasRoom(lsub_index, subr_limit) THEN "local"
        ELSE "skip"
    ELSE IF HasRoom(a.gsubrs, subr_limit) THEN "global"
    ELSE "skip"

\* MarkGlobal with the assignment to _global left out
MarkGlobalForgotten(st, subr) == st

\* subr._global = True (lines 767, 773, 786)
MarkGlobal(st, subr) == [st EXCEPT ![subr].global = TRUE]

\* one iteration of the while loop (lines 759-791)
AssignOne(a, subr_limit) ==
    LET subr == a.subrs[Len(a.subrs)]
        rest == SubSeq(a.subrs, 1, Len(a.subrs) - 1)
        where == Placement(a, subr, subr_limit)
        fd == a.st[subr].fdidx[1]
    IN IF where = "global"
       THEN [a EXCEPT !.subrs = rest,
                      !.gsubrs = insert_by_usage(a.st, subr, a.gsubrs),
                      !.st = MarkGlobal(a.st, subr)]
       ELSE IF where = "local"
       THEN [a EXCEPT !.subrs = rest,
                      !.lsubrs = [a.lsubrs EXCEPT ![fd + 1] =
                                    insert_by_usage(a.st, subr, @)]]
       ELSE [a EXCEPT !.subrs = rest, !.bad = Append(a.bad, subr)]

\* line 793: [s[1] for s in subrs] indexes CandidateSubr objects, which
\* have no __getitem__: a TypeError unless subrs is empty
LeftoverRaises(subrs) == subrs # <<>>

(***************************************************************************)
(* Compreffor.calc_nesting.  The depths are the max_call_depth fields of   *)
(* the store, None while the attribute is not set.                         *)
(***************************************************************************)
Callees(st, o) == [k \in 1..Len(st[o].encoding) |-> st[o].encoding[k][2]]

\* not hasattr(subr, "_max_call_depth") or subr._max_call_depth < depth
DepthBelow(st, o, depth) ==
    st[o].max_call_depth = None \/ st[o].max_call_depth < depth

RECURSIVE increment_subr_depth(_, _, _)
RECURSIVE VisitCallees(_, _, _)
increment_subr_depth(st, subr, depth) ==
    LET st1 == IF DepthBelow(st, subr, depth)
               THEN [st EXCEPT ![subr].max_call_depth = depth] ELSE st
    IN VisitCallees(st1, Callees(st1, subr), depth)

\* the while loop of lines 865-871 over the deque callees
VisitCallees(st, callees, depth) ==
    IF callees = <<>> THEN st
    ELSE LET next_subr == callees[Len(callees)]
             rest == SubSeq(callees, 1, Len(callees) - 1)
         IN IF st[next_subr].flatten
            THEN VisitCallees(st, rest \o Callees(st, next_subr), depth)
            ELSE IF DepthBelow(st, next_subr, depth + 1)
            THEN VisitCallees(increment_subr_depth(st, next_subr, depth + 1),
                              rest, depth)
            ELSE VisitCallees(st, rest, depth)

RECURSIVE calc_nesting(_, _, _)
\* the for loop of lines 873-875, from position k of subrs
calc_nesting(st, subrs, k) ==
    IF k > Len(subrs) THEN st
    ELSE calc_nesting(IF st[subrs[k]].max_call_depth = None
                      THEN increment_subr_depth(st, subrs[k], 1) ELSE st,
                      subrs, k + 1)

RECURSIVE NestTables(_, _, _)
\* map(Compreffor.calc_nesting, lsubrs)
NestTables(st, tables, k) ==
    IF k > Len(tables) THEN st
    ELSE NestTables(calc_nesting(st, tables[k], 1), tables, k + 1)

\* TooNested off by one
TooNestedOffByOne(st, o, nest_limit) == st[o].max_call_depth > nest_limit + 1

\* s._max_call_depth > nest_limit
TooNested(st, o, nest_limit) == st[o].max_call_depth > nest_limit

\* lines 795-806; a = [st, subrs, bad, gsubrs, lsubrs]
FixNesting(a, nest_limit) ==
    LET st1 == SetFlatten(a.st, a.bad)
        st2 == NestTables(calc_nesting(st1, a.gsubrs, 1), a.lsubrs, 1)
        deep == {o \in 1..Len(st2) : TooNested(st2, o, nest_limit)}
        too_nested == FilterSeq(Concat(a.lsubrs), deep)
                      \o FilterSeq(a.gsubrs, deep)
        shallow == (1..Len(st2)) \ deep
    IN [st |-> SetFlatten(st2, too_nested),
        subrs |-> a.subrs,
        bad |-> a.bad \o too_nested,
        gsubrs |-> FilterSeq(a.gsubrs, shallow),
        lsubrs |-> [k \in 1..Len(a.lsubrs) |-> FilterSeq(a.lsubrs[k], shallow)]]

(***************************************************************************)
(* Compreffor.collapse_hintmask and expand_hintmask: a for loop over       *)
(* enumerate(program) that edits the list it iterates; the iterator goes   *)
(* on at position i + 1 of the edited list.                                *)
(***************************************************************************)
\* program[i:j] = items
SetSlice(program, i, j, items) ==
    Slice(program, 0, i) \o items \o SliceFrom(program, Max2(i, j))

RECURSIVE CollapseFrom(_, _)
CollapseFrom(program, i) ==
    IF i >= Len(program) THEN program
    ELSE IF IsMaskOp(At(program, i))
    THEN CollapseFrom(SetSlice(program, i, i + 2,
                        <<TupleTok(At(program, i).s, At(program, i + 1).s)>>),
                      i + 1)
    ELSE CollapseFrom(program, i + 1)

collapse_hintmask(program) == CollapseFrom(program, 0)

\* ExpandFrom that puts back the operator only (tok[:1] for tok)
RECURSIVE ExpandFromOpOnly(_, _)
ExpandFromOpOnly(program, i) ==
    IF i >= Len(program) THEN program
    ELSE IF At(program, i).kind = "tuple"
    THEN ExpandFromOpOnly(SetSlice(program, i, i + 1,
                            <<StrTok(At(program, i).s)>>), i + 1)
    ELSE ExpandFromOpOnly(program, i + 1)

RECURSIVE ExpandFrom(_, _)
ExpandFrom(program, i) ==
    IF i >= Len(program) THEN program
    ELSE IF At(program, i).kind = "tuple"
    THEN ExpandFrom(SetSlice(program, i, i + 1,
                        <<StrTok(At(program, i).s), StrTok(At(program, i).m)>>),
                    i + 1)
    ELSE ExpandFrom(program, i + 1)

expand_hintmask(program) == ExpandFrom(program, 0)

(***************************************************************************)
(* Compreffor.update_program.  fdidx is the fd of the program, None for a  *)
(* global subr or a flattened body.  The result is [program, ok]; ok is    *)
(* FALSE when one of the assertions of lines 900-909 fails or a flattened  *)
(* substring has no _program.                                              *)
(***************************************************************************)
\* psCharStrings.calcSubrBias of fontTools
calcSubrBias(subrs) ==
    IF Len(subrs) < 1240 THEN 107
    ELSE IF Len(subrs) < 33900 THEN 1131
    ELSE 32768

\* the two tokens of a call (line 913)
CallTokens(position, bias, operator) ==
    <<IntTok(position - bias), StrTok(operator)>>

\* the drift added after a call (line 914)
CallDrift(length) == length - 2

\* the drift added after an inlined body (line 898)
InlineDrift(length, body) == length - Len(body)

\* the loop of lines 893-914 from item k of encoding; u = [program, offset, ok]
RECURSIVE UpdateFrom(_, _, _, _, _, _, _)
UpdateFrom(st, encoding, k, gbias, lbias_arr, fdidx, u) ==
    IF k > Len(encoding) THEN u
    ELSE LET start == encoding[k][1]
             subr == st[encoding[k][2]]
             lo == start - u.offset
             hi == start + subr.length - u.offset
         IN IF subr.flatten
            THEN UpdateFrom(st, encoding, k + 1, gbias, lbias_arr, fdidx,
                    [program |-> SetSlice(u.program, lo, hi, subr.program),
                     offset |-> u.offset + InlineDrift(subr.length, subr.program),
                     ok |-> u.ok /\ subr.has_program])
            ELSE IF subr.global
            THEN UpdateFrom(st, encoding, k + 1, gbias, lbias_arr, fdidx,
                    [program |-> SetSlice(u.program, lo, hi,
                                    CallTokens(subr.position, gbias, "callgsubr")),
                     offset |-> u.offset + CallDrift(subr.length),
                     ok |-> u.ok /\ subr.position # None])
            ELSE LET local_ok == /\ subr.position # None
                                 /\ Len(subr.fdidx) = 1
                                 /\ (fdidx = None \/ subr.fdidx[1] = fdidx)
                 IN UpdateFrom(st, encoding, k + 1, gbias, lbias_arr, fdidx,
                    [program |-> IF Len(subr.fdidx) >= 1
                                 THEN SetSlice(u.program, lo, hi,
                                        CallTokens(subr.position,
                                            At(lbias_arr, subr.fdidx[1]),
                                            "callsubr"))
                                 ELSE u.program,
                     offset |-> u.offset + CallDrift(subr.length),
                     ok |-> u.ok /\ local_ok])

update_program(st, program, encoding, gbias, lbias_arr, fdidx) ==
    LET u == UpdateFrom(st, encoding, 1, gbias, lbias_arr, fdidx,
                        [program |-> program, offset |-> 0, ok |-> TRUE])
    IN [program |-> u.program, ok |-> u.ok]

(***************************************************************************)
(* Compreffor.process_subrs, part 2: the positions and the programs.       *)
(***************************************************************************)
\* lines 821-827 for one table
Reorder(st, subr_arr, bias) ==
    LET sorted == ListSort(subr_arr, [o \in 1..Len(st) |-> st[o].usages], TRUE)
    IN IF bias = 1131
       THEN Slice(sorted, 216, 1240) \o Slice(sorted, 0, 216)
            \o SliceFrom(sorted, 1240)
       ELSE IF bias = 32768
       THEN Slice(sorted, 2264, 33901) \o Slice(sorted, 216, 1240)
            \o Slice(sorted, 0, 216) \o Slice(sorted, 1240, 2264)
            \o SliceFrom(sorted, 33901)
       ELSE sorted

\* map(update_position, range(len(subr_arr)), subr_arr) for every table
SetPositions(st, tables) ==
    [o \in 1..Len(st) |->
        IF \E t \in 1..Len(tables) : o \in SeqToSet(tables[t])
        THEN LET t == CHOOSE t \in 1..Len(tables) : o \in SeqToSet(tables[t])
             IN [st[o] EXCEPT !.position =
                    (CHOOSE k \in 1..Len(tables[t]) : tables[t][k] = o) - 1]
        ELSE st[o]]

\* [rev_keymap[tok] for tok in subr.value()]
TokensOf(d, rev, c) == [k \in 1..c.length |-> At(rev, value(d, c)[k])]

\* program[-1] not in ("endchar", "return")
NeedsReturn(program) ==
    program[Len(program)] \notin {StrTok("endchar"), StrTok("return")}

\* lines 830-837 over the flattened substrings; e = [st, ok]
RECURSIVE EmitFlattened(_, _, _, _, _, _, _)
EmitFlattened(d, rev, bad_sorted, k, gbias, lbias, e) ==
    IF k > Len(bad_sorted) THEN e
    ELSE LET o == bad_sorted[k] IN
         IF Len(e.st[o].fdidx) > 0
         THEN LET r == update_program(e.st, TokensOf(d, rev, e.st[o]),
                                      e.st[o].encoding, gbias, lbias, None)
              IN EmitFlattened(d, rev, bad_sorted, k + 1, gbias, lbias,
                    [st |-> [e.st EXCEPT ![o].program = expand_hintmask(r.program),
                                         ![o].has_program = TRUE],
                     ok |-> e.ok /\ r.ok])
         ELSE EmitFlattened(d, rev, bad_sorted, k + 1, gbias, lbias, e)

\* lines 841-847 for the subrs of one table; sel is the fd of the table,
\* None for the global table
RECURSIVE EmitTable(_, _, _, _, _, _, _, _)
EmitTable(d, rev, subr_arr, k, gbias, lbias, sel, e) ==
    IF k > Len(subr_arr) THEN e
    ELSE LET o == subr_arr[k]
             body == TokensOf(d, rev, e.st[o])
             program == IF NeedsReturn(body)
                        THEN Append(body, StrTok("return")) ELSE body
             r == update_program(e.st, program, e.st[o].encoding, gbias,
                                 lbias, sel)
         IN EmitTable(d, rev, subr_arr, k + 1, gbias, lbias, sel,
                [st |-> [e.st EXCEPT ![o].program = expand_hintmask(r.program),
                                     ![o].has_program = TRUE],
                 ok |-> e.ok /\ r.ok])

\* the loop of lines 839-847 over the local tables, after the global one
RECURSIVE EmitLocals(_, _, _, _, _, _, _)
EmitLocals(d, rev, tables, fd, gbias, lbias, e) ==
    IF fd >= Len(tables) THEN e
    ELSE EmitLocals(d, rev, tables, fd + 1, gbias, lbias,
                    EmitTable(d, rev, At(tables, fd), 1, gbias, lbias, fd, e))

\* lines 813-847; the result is [st, gsubrs, lsubrs, ok]
EmitPrograms(d, rev, a) ==
    LET gbias == calcSubrBias(a.gsubrs)
        lbias == [k \in 1..Len(a.lsubrs) |-> calcSubrBias(a.lsubrs[k])]
        g1 == Reorder(a.st, a.gsubrs, gbias)
        l1 == [k \in 1..Len(a.lsubrs) |-> Reorder(a.st, a.lsubrs[k], lbias[k])]
        st1 == SetPositions(a.st, <<g1>> \o l1)
        bad_sorted == ListSort(a.bad, [o \in 1..Len(st1) |-> st1[o].length],
                               FALSE)
        e1 == EmitFlattened(d, rev, bad_sorted, 1, gbias, lbias,
                            [st |-> st1, ok |-> TRUE])
        e2 == EmitTable(d, rev, g1, 1, gbias, lbias, None, e1)
        e3 == EmitLocals(d, rev, l1, 0, gbias, lbias, e2)
    IN [st |-> e3.st, gsubrs |-> g1, lsubrs |-> l1, ok |-> e3.ok]

(***************************************************************************)
(* Compreffor.apply_subrs: the glyph programs rewritten in place.          *)
(***************************************************************************)
\* lines 511-513 and 527-529 for one glyph; the result is [program, ok]
ApplyToGlyph(st, program, enc, gbias, lbias, sel) ==
    LET r == update_program(st, collapse_hintmask(program), enc, gbias,
                            lbias, sel)
    IN [program |-> expand_hintmask(r.program), ok |-> r.ok]

(***************************************************************************)
(* The inputs.  A glyph program of the enumerated family is a sequence of  *)
(* 1 .. MaxLen units, a unit being a hintmask with 12 mask bytes (13       *)
(* bytes) or a real operand (5 bytes); a corpus of the family has          *)
(* MaxGlyphs glyphs.  The scenarios add programs of other tokens.          *)
(***************************************************************************)
MaskBytes == "mmmmmmmmmmmm"

Units == {<<StrTok("hintmask"), StrTok(MaskBytes)>>, <<FloatTok(1)>>}

UnitSeqs == UNION {[1..n -> Units] : n \in 1..MaxLen}

FamilyPrograms == {Concat(us) : us \in UnitSeqs}

FamilyCorpora == [1..MaxGlyphs -> FamilyPrograms]

\* scenario S1 of the specification: [a, b, c, a, b, c], unit-cost tokens
ScenarioS1 ==
    <<<<IntTok(1), IntTok(2), StrTok("rlineto"),
        IntTok(1), IntTok(2), StrTok("rlineto")>>>>

\* two glyphs that share a body ending in endchar
ScenarioEndchar ==
    <<<<StrTok("cntrmask"), StrTok(MaskBytes), IntTok(300), StrTok("endchar")>>,
      <<IntTok(1), StrTok("cntrmask"), StrTok(MaskBytes), IntTok(300),
        StrTok("endchar")>>>>

\* three repeated substrings that all survive: h = hintmask unit, f = real
ScenarioThree ==
    LET h == <<StrTok("hintmask"), StrTok(MaskBytes)>>
        c == <<StrTok("cntrmask"), StrTok(MaskBytes)>>
    IN <<h \o c \o c \o h, c \o h \o h \o h \o c>>

\* the int 1 and the real 1.0 before the same hintmask
ScenarioMixed ==
    <<<<IntTok(1), StrTok("hintmask"), StrTok(MaskBytes)>>,
      <<FloatTok(1), StrTok("hintmask"), StrTok(MaskBytes)>>>>

Corpora ==
    FamilyCorpora
        \cup {ScenarioS1, ScenarioEndchar, ScenarioThree, ScenarioMixed}

\* the fd selectors: None (the empty sequence, fdlen = 1) or an fd index
\* below MaxFd for every glyph
MaxFd == 2

FdSelectors(n) == {<<>>} \cup [1..n -> 0..(MaxFd - 1)]

(***************************************************************************)
(* The state.                                                              *)
(***************************************************************************)
VARIABLES
    pc,             \* the step the compressor is at
    glyph_set,      \* the glyph programs given to the compressor
    programs,       \* charstring.program of every glyph, rewritten in place
    test_mode,      \* Compreffor.test_mode
    nrounds,        \* Compreffor.NROUNDS
    rev_keymap,     \* SubstringFinder.rev_keymap
    cost_map,       \* SubstringFinder.cost_map
    data,           \* SubstringFinder.data
    suffixes,       \* SubstringFinder.suffixes
    lcp,            \* the array returned by get_lcp
    min_freq,       \* arguments of get_substrings
    check_positive,
    popped,         \* the intervals popped by the sweep of get_substrings
    cand,           \* the store of CandidateSubr objects
    substrings,     \* the active list of iterative_encode
    substr_dict,    \* value -> <<idx, price>>
    run_count,      \* the round counter
    encodings,      \* the glyph encodings of the latest round
    tasks,          \* the optimize_charstring tasks handed to pool.map
    pending,        \* the tasks that have not run yet
    results,        \* what the tasks returned, in the order of tasks
    fdlen,          \* arguments of process_subrs
    fdselect,
    subr_limit,
    nest_limit,
    subrs,          \* the survivors not yet assigned
    bad_substrings, \* the substrings to flatten
    gsubrs,         \* the global table
    lsubrs          \* the local tables

vars == <<pc, glyph_set, programs, test_mode, nrounds, rev_keymap, cost_map,
          data, suffixes, lcp, min_freq, check_positive, popped, cand,
          substrings, substr_dict, run_count, tasks, pending, results,
          encodings, fdlen, fdselect, subr_limit, nest_limit, subrs,
          bad_substrings, gsubrs, lsubrs>>

inputVars == <<glyph_set, test_mode, nrounds>>
finderVars == <<rev_keymap, cost_map, data, suffixes, lcp>>
sweepVars == <<min_freq, check_positive, popped>>
poolVars == <<tasks, pending, results>>
marketVars == <<cand, substrings, substr_dict, run_count, encodings>>
argVars == <<fdlen, fdselect, subr_limit, nest_limit>>
tableVars == <<subrs, bad_substrings, gsubrs, lsubrs>>

EmptyDict == [k \in {} |-> <<>>]

\* everything but the inputs, before the compressor has run
Blank ==
    /\ rev_keymap = <<>> /\ cost_map = <<>> /\ data = <<>>
    /\ suffixes = <<>> /\ lcp = <<>>
    /\ min_freq = 2 /\ check_positive = TRUE /\ popped = <<>>
    /\ cand = <<>> /\ substrings = <<>> /\ substr_dict = EmptyDict
    /\ run_count = 0 /\ encodings = <<>>
    /\ tasks = <<>> /\ pending = {} /\ results = <<>>
    /\ fdlen = 1 /\ fdselect = <<>> /\ subr_limit = 0 /\ nest_limit = 0
    /\ subrs = <<>> /\ bad_substrings = <<>> /\ gsubrs = <<>> /\ lsubrs = <<>>

Init ==
    /\ pc = "start"
    /\ glyph_set \in Corpora
    /\ \A g \in 1..Len(glyph_set) : WellFormed(glyph_set[g])
    /\ programs = glyph_set
    /\ test_mode \in BOOLEAN
    /\ nrounds \in 1..MaxRounds
    /\ Blank

(***************************************************************************)
(* The steps of SubstringFinder.                                           *)
(***************************************************************************)
\* SubstringFinder.__init__
ProcessChstrings ==
    /\ pc = "start"
    /\ LET r == process_chstrings(glyph_set) IN
        /\ rev_keymap' = r.rev
        /\ cost_map' = r.costs
        /\ data' = r.data
        /\ suffixes' = r.suffixes
    /\ pc' = "remapped"
    /\ UNCHANGED <<inputVars, poolVars, sweepVars, programs, lcp, marketVars, argVars, tableVars>>

GetSuffixes ==
    /\ pc = "remapped"
    /\ suffixes' = get_suffixes(data, suffixes)
    /\ pc' = "sorted"
    /\ UNCHANGED <<inputVars, poolVars, sweepVars, programs, rev_keymap, cost_map, data, lcp,
                   marketVars, argVars, tableVars>>

GetLcp ==
    /\ pc = "sorted"
    /\ lcp' = get_lcp(data, suffixes)
    /\ pc' = "lcp"
    /\ UNCHANGED <<inputVars, poolVars, sweepVars, programs, rev_keymap, cost_map, data, suffixes,
                   marketVars, argVars, tableVars>>

\* the arguments of get_substrings chosen by iterative_encode (lines 589-592)
MinFreq == IF test_mode THEN 0 ELSE 2
CheckPositive == ~test_mode

GetSubstrings ==
    /\ pc = "lcp"
    /\ LET r == get_substrings(data, cost_map, suffixes, lcp, MinFreq,
                               CheckPositive) IN
        /\ cand' = r.objs
        /\ substrings' = r.substrings
        /\ popped' = r.popped
    /\ min_freq' = MinFreq
    /\ check_positive' = CheckPositive
    /\ pc' = "extracted"
    /\ UNCHANGED <<inputVars, poolVars, programs, finderVars, substr_dict, run_count,
                   encodings, argVars, tableVars>>

(***************************************************************************)
(* The steps of Compreffor.iterative_encode.                               *)
(***************************************************************************)
SetUp ==
    /\ pc = "extracted"
    /\ LET m == SetUpFrom(data, cost_map, substrings, 0,
                          [st |-> cand, sd |-> EmptyDict]) IN
        /\ cand' = m.st
        /\ substr_dict' = m.sd
    /\ run_count' = 0
    /\ pc' = "price"
    /\ UNCHANGED <<inputVars, poolVars, sweepVars, programs, finderVars, substrings, encodings,
                   argVars, tableVars>>

Calibrate ==
    /\ pc = "price"
    /\ LET m == CalibrateFrom(data, substrings, 0,
                              [st |-> cand, sd |-> substr_dict]) IN
        /\ cand' = m.st
        /\ substr_dict' = m.sd
    /\ pc' = "encode_substrings"
    /\ UNCHANGED <<inputVars, poolVars, sweepVars, programs, finderVars, substrings, run_count,
                   encodings, argVars, tableVars>>

EncodeSubstringsStep ==
    /\ pc = "encode_substrings"
    /\ cand' = EncodeSubstrings(data, cost_map, cand, substrings, substr_dict)
    /\ pc' = "encode_charstrings"
    /\ UNCHANGED <<inputVars, poolVars, sweepVars, programs, finderVars, substrings, substr_dict,
                   run_count, encodings, argVars, tableVars>>

EncodeCharstringsStep ==
    /\ pc = "encode_charstrings"
    /\ encodings' = EncodeCharstrings(data, cost_map, substrings, substr_dict)
    /\ pc' = "recount"
    /\ UNCHANGED <<inputVars, poolVars, sweepVars, programs, finderVars, cand, substrings,
                   substr_dict, run_count, argVars, tableVars>>

Recount ==
    /\ pc = "recount"
    /\ cand' = RecountUsages(cand, substrings, encodings)
    /\ pc' = "prune"
    /\ UNCHANGED <<inputVars, poolVars, sweepVars, programs, finderVars, substrings, substr_dict,
                   run_count, encodings, argVars, tableVars>>

\* the end of a round: back to the price update, or on to process_subrs
AfterRound == IF run_count + 1 < nrounds THEN "price" ELSE "post"

Prune ==
    /\ pc = "prune"
    /\ PrunesInRound(run_count, nrounds, test_mode)
    /\ LET bad == {o \in SeqToSet(substrings) : IsBad(data, cost_map, cand, o)}
           kept == FilterSeq(substrings, SeqToSet(substrings) \ bad)
           m == PruneFrom(data, FilterSeq(substrings, bad), 1,
                          [st |-> cand, sd |-> substr_dict])
       IN /\ substrings' = kept
          /\ cand' = Reindex(m.st, kept)
          /\ substr_dict' = m.sd
    /\ run_count' = run_count + 1
    /\ pc' = AfterRound
    /\ UNCHANGED <<inputVars, poolVars, sweepVars, programs, finderVars, encodings, argVars,
                   tableVars>>

SkipPrune ==
    /\ pc = "prune"
    /\ ~PrunesInRound(run_count, nrounds, test_mode)
    /\ run_count' = run_count + 1
    /\ pc' = AfterRound
    /\ UNCHANGED <<inputVars, poolVars, sweepVars, programs, finderVars, cand, substrings,
                   substr_dict, encodings, argVars, tableVars>>

(***************************************************************************)
(* The steps of Compreffor.process_subrs and apply_subrs.  An exception    *)
(* ends the run: pc names it.                                              *)
(***************************************************************************)
Assignment == [st |-> cand, subrs |-> subrs, bad |-> bad_substrings,
               gsubrs |-> gsubrs, lsubrs |-> lsubrs]

\* the call of lines 705-714, then lines 724-755
CallProcessSubrs ==
    /\ pc = "post"
    /\ \E fdsel \in FdSelectors(Len(glyph_set)),
          limit \in 1..MaxSubrLimit, nest \in 1..MaxNestLimit :
        /\ fdselect' = fdsel
        /\ fdlen' = IF fdsel = <<>> THEN 1 ELSE MaxFd
        /\ subr_limit' = limit
        /\ nest_limit' = nest
        /\ LET a == FilterSurvivors(data, cost_map,
                        MarkGlyphs(cand, encodings, fdsel, 0), substrings,
                        IF fdsel = <<>> THEN 1 ELSE MaxFd)
           IN /\ cand' = a.st
              /\ subrs' = a.subrs
              /\ bad_substrings' = a.bad
              /\ gsubrs' = a.gsubrs
              /\ lsubrs' = a.lsubrs
    /\ pc' = "assign"
    /\ UNCHANGED <<inputVars, poolVars, sweepVars, programs, finderVars, substrings, substr_dict,
                   run_count, encodings>>

\* one iteration of the while loop of line 757
AssignStep ==
    /\ pc = "assign"
    /\ AssignContinues(Assignment, subr_limit)
    /\ LET a == AssignOne(Assignment, subr_limit) IN
        /\ cand' = a.st
        /\ subrs' = a.subrs
        /\ bad_substrings' = a.bad
        /\ gsubrs' = a.gsubrs
        /\ lsubrs' = a.lsubrs
    /\ UNCHANGED <<pc, inputVars, poolVars, sweepVars, programs, finderVars, substrings,
                   substr_dict, run_count, encodings, argVars>>

\* the loop is left: line 793, then lines 795-806
AssignExit ==
    /\ pc = "assign"
    /\ ~AssignContinues(Assignment, subr_limit)
    /\ IF LeftoverRaises(subrs)
       THEN /\ pc' = "TypeError"
            /\ UNCHANGED <<cand, tableVars>>
       ELSE /\ LET a == FixNesting(Assignment, nest_limit) IN
                /\ cand' = a.st
                /\ bad_substrings' = a.bad
                /\ gsubrs' = a.gsubrs
                /\ lsubrs' = a.lsubrs
            /\ pc' = "emit"
            /\ UNCHANGED subrs
    /\ UNCHANGED <<inputVars, poolVars, sweepVars, programs, finderVars, substrings, substr_dict,
                   run_count, encodings, argVars>>

\* lines 813-852
Emit ==
    /\ pc = "emit"
    /\ LET e == EmitPrograms(data, rev_keymap, Assignment) IN
        /\ cand' = e.st
        /\ gsubrs' = e.gsubrs
        /\ lsubrs' = e.lsubrs
        /\ pc' = IF e.ok THEN "apply" ELSE "AssertionError"
    /\ UNCHANGED <<inputVars, poolVars, sweepVars, programs, finderVars, substrings, substr_dict,
                   run_count, encodings, argVars, subrs, bad_substrings>>

\* Compreffor.apply_subrs on every glyph
ApplySubrs ==
    /\ pc = "apply"
    /\ LET gbias == calcSubrBias(gsubrs)
           lbias == [k \in 1..Len(lsubrs) |-> calcSubrBias(lsubrs[k])]
           r == [g \in 1..Len(programs) |->
                    ApplyToGlyph(cand, programs[g], encodings[g], gbias, lbias,
                                 SelOf(fdselect, g - 1))]
       IN /\ programs' = [g \in 1..Len(programs) |-> r[g].program]
          /\ pc' = IF \A g \in 1..Len(programs) : r[g].ok
                   THEN "done" ELSE "AssertionError"
    /\ UNCHANGED <<inputVars, poolVars, sweepVars, finderVars, marketVars, argVars, tableVars>>

Next ==
    \/ ProcessChstrings
    \/ GetSuffixes
    \/ GetLcp
    \/ GetSubstrings
    \/ SetUp
    \/ Calibrate
    \/ EncodeSubstringsStep
    \/ EncodeCharstringsStep
    \/ Recount
    \/ Prune
    \/ SkipPrune
    \/ CallProcessSubrs
    \/ AssignStep
    \/ AssignExit
    \/ Emit
    \/ ApplySubrs

Spec == Init /\ [][Next]_vars

(***************************************************************************)
(* The hintmask round trip on its own: collapse_hintmask, then             *)
(* expand_hintmask, on token lists in which every hintmask or cntrmask     *)
(* operator is followed by its mask bytes.  The mask bytes may spell the   *)
(* name of an operator.                                                    *)
(***************************************************************************)
MaxHintLen == 4

HintTokens ==
    {StrTok("hintmask"), StrTok("cntrmask"), StrTok("mm"), StrTok("rlineto"),
     IntTok(7)}

\* every mask operator of program, read from position i, has a mask after it
RECURSIVE MaskFollows(_, _)
MaskFollows(program, i) ==
    IF i >= Len(program) THEN TRUE
    ELSE IF IsMaskOp(At(program, i))
    THEN /\ i + 1 < Len(program)
         /\ At(program, i + 1).kind = "str"
         /\ MaskFollows(program, i + 2)
    ELSE MaskFollows(program, i + 1)

HintPrograms ==
    {p \in UNION {[1..n -> HintTokens] : n \in 0..MaxHintLen} :
        MaskFollows(p, 0)}

InitHint ==
    /\ pc = "raw"
    /\ glyph_set \in {<<p>> : p \in HintPrograms}
    /\ programs = glyph_set
    /\ test_mode = FALSE
    /\ nrounds = 1
    /\ Blank

CollapseHintmask ==
    /\ pc = "raw"
    /\ programs' = [g \in 1..Len(programs) |-> collapse_hintmask(programs[g])]
    /\ pc' = "collapsed"
    /\ UNCHANGED <<inputVars, poolVars, sweepVars, finderVars, marketVars, argVars, tableVars>>

ExpandHintmask ==
    /\ pc = "collapsed"
    /\ programs' = [g \in 1..Len(programs) |-> expand_hintmask(programs[g])]
    /\ pc' = "expanded"
    /\ UNCHANGED <<inputVars, poolVars, sweepVars, finderVars, marketVars, argVars, tableVars>>

NextHint ==
    \/ CollapseHintmask
    \/ ExpandHintmask

SpecHint == InitHint /\ [][NextHint]_vars

(***************************************************************************)
(* SubstringFinder on its own: get_substrings called with any min_freq     *)
(* and check_positive (the defaults of line 351 and others).               *)
(***************************************************************************)
MaxMinFreq == 3

InitFinder ==
    /\ pc = "start"
    /\ glyph_set \in Corpora
    /\ \A g \in 1..Len(glyph_set) : WellFormed(glyph_set[g])
    /\ programs = glyph_set
    /\ test_mode = FALSE
    /\ nrounds = 1
    /\ Blank

GetSubstringsWith ==
    /\ pc = "lcp"
    /\ \E mf \in 0..MaxMinFreq, cp \in BOOLEAN :
        /\ min_freq' = mf
        /\ check_positive' = cp
        /\ LET r == get_substrings(data, cost_map, suffixes, lcp, mf, cp) IN
            /\ cand' = r.objs
            /\ substrings' = r.substrings
            /\ popped' = r.popped
    /\ pc' = "returned"
    /\ UNCHANGED <<inputVars, poolVars, programs, finderVars, substr_dict, run_count,
                   encodings, argVars, tableVars>>

NextFinder ==
    \/ ProcessChstrings
    \/ GetSuffixes
    \/ GetLcp
    \/ GetSubstringsWith

SpecFinder == InitFinder /\ [][NextFinder]_vars

(***************************************************************************)
(* iterative_encode with a process pool (SINGLE_PROCESS off): pool.map     *)
(* hands one optimize_charstring task per item to the workers, which run   *)
(* them in any order; it returns, with the results in the order of the     *)
(* items, when every task has run.  The run is followed to the end of the  *)
(* market.                                                                 *)
(***************************************************************************)
\* the place of a result that has not come back yet
NoResult == [encoding |-> <<>>, market_cost |-> None, assert_ok |-> TRUE]

\* lines 636-641: the tasks of the substrings
StartSubstringTasks ==
    /\ pc = "encode_substrings"
    /\ tasks' = [k \in 1..Len(substrings) |->
                    [charstring |-> value(data, cand[substrings[k]]),
                     skip_idx |-> k - 1]]
    /\ pending' = 1..Len(substrings)
    /\ results' = [k \in 1..Len(substrings) |-> NoResult]
    /\ pc' = "substring_tasks"
    /\ UNCHANGED <<inputVars, sweepVars, programs, finderVars, marketVars,
                   argVars, tableVars>>

\* a task that forgets whose encoding it computes
TaskResultNoSkip(task) ==
    optimize_charstring(task.charstring, cost_map, substr_dict, None)

\* what a worker returns for a task
TaskResult(task) ==
    optimize_charstring(task.charstring, cost_map, substr_dict, task.skip_idx)

\* a worker runs one of the tasks that are left
RunTask ==
    /\ pc \in {"substring_tasks", "charstring_tasks"}
    /\ \E k \in pending :
        /\ results' = [results EXCEPT ![k] = TaskResult(tasks[k])]
        /\ pending' = pending \ {k}
    /\ UNCHANGED <<pc, inputVars, sweepVars, programs, finderVars, marketVars,
                   tasks, argVars, tableVars>>

\* pool.map returns without lines 643-645
StoreNothing ==
    /\ pc = "substring_tasks"
    /\ pending = {}
    /\ pc' = "encode_charstrings"
    /\ UNCHANGED <<inputVars, sweepVars, programs, finderVars, marketVars,
                   poolVars, argVars, tableVars>>

\* pool.map returns; lines 643-645
StoreSubstringEncodings ==
    /\ pc = "substring_tasks"
    /\ pending = {}
    /\ cand' = [o \in 1..Len(cand) |->
                 IF o \in SeqToSet(substrings)
                 THEN LET k == CHOOSE i \in 1..Len(substrings) :
                                    substrings[i] = o
                      IN [cand[o] EXCEPT
                            !.encoding = ResolveEncoding(substrings,
                                                         results[k].encoding),
                            !.adjusted_cost = results[k].market_cost]
                 ELSE cand[o]]
    /\ pc' = "encode_charstrings"
    /\ UNCHANGED <<inputVars, sweepVars, programs, finderVars, substrings,
                   substr_dict, run_count, encodings, poolVars, argVars,
                   tableVars>>

\* lines 649-655: the tasks of the glyphs
StartCharstringTasks ==
    /\ pc = "encode_charstrings"
    /\ tasks' = [g \in 1..Len(data) |->
                    [charstring |-> data[g], skip_idx |-> None]]
    /\ pending' = 1..Len(data)
    /\ results' = [g \in 1..Len(data) |-> NoResult]
    /\ pc' = "charstring_tasks"
    /\ UNCHANGED <<inputVars, sweepVars, programs, finderVars, marketVars,
                   argVars, tableVars>>

\* pool.map returns; line 656
StoreEncodings ==
    /\ pc = "charstring_tasks"
    /\ pending = {}
    /\ encodings' = [g \in 1..Len(data) |->
                        ResolveEncoding(substrings, results[g].encoding)]
    /\ pc' = "recount"
    /\ UNCHANGED <<inputVars, sweepVars, programs, finderVars, cand,
                   substrings, substr_dict, run_count, poolVars, argVars,
                   tableVars>>

NextPool ==
    \/ ProcessChstrings
    \/ GetSuffixes
    \/ GetLcp
    \/ GetSubstrings
    \/ SetUp
    \/ Calibrate
    \/ StartSubstringTasks
    \/ RunTask
    \/ StoreSubstringEncodings
    \/ StartCharstringTasks
    \/ StoreEncodings
    \/ Recount
    \/ Prune
    \/ SkipPrune

SpecPool == Init /\ [][NextPool]_vars

(***************************************************************************)
(* The pruning of lines 677-692 statement by statement.  pending holds the *)
(* bad substrings whose turn has not come and tasks the one whose encoding *)
(* is being walked, with the number k of its next item.  The source takes  *)
(* the bad substrings in list order; here any order is taken.  The run     *)
(* stops where process_subrs is called.                                    *)
(***************************************************************************)
PruneStep ==
    /\ PrunesInRound(run_count, nrounds, test_mode)
    /\ \/ \* lines 678-684: the two lists
          /\ pc = "prune"
          /\ LET bad == {o \in SeqToSet(substrings) :
                            IsBad(data, cost_map, cand, o)}
             IN /\ substrings' = FilterSeq(substrings,
                                           SeqToSet(substrings) \ bad)
                /\ pending' = bad
          /\ pc' = "pruning"
          /\ UNCHANGED <<cand, substr_dict, run_count, tasks>>
       \/ \* line 686: the next bad substring
          /\ pc = "pruning" /\ tasks = <<>>
          /\ \E o \in pending :
                /\ tasks' = <<[bad |-> o, k |-> 1]>>
                /\ pending' = pending \ {o}
          /\ UNCHANGED <<pc, cand, substrings, substr_dict, run_count>>
       \/ \* line 689 for one item of its encoding
          /\ pc = "pruning" /\ tasks # <<>>
          /\ tasks[1].k <= Len(cand[tasks[1].bad].encoding)
          /\ LET bad == tasks[1].bad
                 called == cand[bad].encoding[tasks[1].k][2]
             IN cand' = [cand EXCEPT ![called].usages =
                            cand[called].usages + cand[bad].usages - 1]
          /\ tasks' = <<[tasks[1] EXCEPT !.k = @ + 1]>>
          /\ UNCHANGED <<pc, substrings, substr_dict, run_count, pending>>
       \/ \* line 690
          /\ pc = "pruning" /\ tasks # <<>>
          /\ tasks[1].k > Len(cand[tasks[1].bad].encoding)
          /\ substr_dict' = DictDel(substr_dict,
                                    value(data, cand[tasks[1].bad]))
          /\ tasks' = <<>>
          /\ UNCHANGED <<pc, cand, substrings, run_count, pending>>
       \/ \* lines 691-692, and the round is over
          /\ pc = "pruning" /\ tasks = <<>> /\ pending = {}
          /\ cand' = Reindex(cand, substrings)
          /\ run_count' = run_count + 1
          /\ pc' = AfterRound
          /\ UNCHANGED <<substrings, substr_dict, tasks, pending>>
    /\ UNCHANGED <<inputVars, sweepVars, programs, finderVars, encodings,
                   results, argVars, tableVars>>

NextPrune ==
    \/ ProcessChstrings
    \/ GetSuffixes
    \/ GetLcp
    \/ GetSubstrings
    \/ SetUp
    \/ Calibrate
    \/ EncodeSubstringsStep
    \/ EncodeCharstringsStep
    \/ Recount
    \/ PruneStep
    \/ SkipPrune

SpecPrune == Init /\ [][NextPrune]_vars

(***************************************************************************)
(* The budgeted assignment on its own, entered with tables that already    *)
(* hold many subrs: the sizes are those around the threshold 215 of        *)
(* test_call_cost.  A table is sorted by usages, as insert_by_usage     *)
(* leaves it; here all its subrs have usages 3, and the survivors have     *)
(* usages 2 or 4.  gsubrs and lsubrs[0] hold 0, 214 or 215 subrs,          *)
(* lsubrs[1] is empty, and the limit is 215 or 216.                        *)
(***************************************************************************)
MaxPlaced == 2

\* a subr with the fields that the assignment reads
PlacedSubr(usages, fdidx, global) ==
    [CandidateSubr(1, <<0, 0>>, usages) EXCEPT
        !.usages = usages, !.fdidx = fdidx, !.global = global]

InitPlace ==
    /\ pc = "assign"
    /\ glyph_set = <<>> /\ programs = <<>> /\ test_mode = FALSE /\ nrounds = 1
    /\ rev_keymap = <<>> /\ cost_map = <<>> /\ data = <<>>
    /\ suffixes = <<>> /\ lcp = <<>>
    /\ min_freq = 2 /\ check_positive = TRUE /\ popped = <<>>
    /\ substr_dict = EmptyDict /\ run_count = 0 /\ encodings = <<>>
    /\ tasks = <<>> /\ pending = {} /\ results = <<>>
    /\ fdlen = 2 /\ fdselect = <<0, 1>> /\ nest_limit = 1
    /\ bad_substrings = <<>>
    /\ subr_limit \in {215, 216}
    /\ \E ng \in {0, 214, 215}, nl \in {0, 214, 215}, n \in 1..MaxPlaced :
        /\ ng <= subr_limit /\ nl <= subr_limit
        /\ \E fds \in [1..n -> {<<0>>, <<1>>, <<0, 1>>}],
              us \in [1..n -> {2, 4}] :
            /\ cand = [k \in 1..ng |-> PlacedSubr(3, <<0, 1>>, TRUE)]
                       \o [k \in 1..nl |-> PlacedSubr(3, <<0>>, FALSE)]
                       \o [k \in 1..n |-> PlacedSubr(us[k], fds[k], FALSE)]
            /\ substrings = [k \in 1..(ng + nl + n) |-> k]
            /\ gsubrs = [k \in 1..ng |-> k]
            /\ lsubrs = <<[k \in 1..nl |-> ng + k], <<>>>>
            /\ subrs = [k \in 1..n |-> ng + nl + k]

NextPlace == AssignStep

SpecPlace == InitPlace /\ [][NextPlace]_vars

(***************************************************************************)
(* optimize_charstring on its own: one call on a code sequence over two    *)
(* codes, with a substring table of up to MaxOptEntries of its segments.   *)
(* skip_idx is None (a glyph) or the table index of the sequence itself (a *)
(* substring encoding itself).                                             *)
(***************************************************************************)
MaxOptLen == 4
MaxOptEntries == 2
MaxOptPrice == 3

OptCharstrings == UNION {[1..n -> 0..1] : n \in 0..MaxOptLen}

OptCostMaps == {<<1, 1>>, <<1, 2>>, <<2, 1>>}

\* the segments of charstring: its non-empty contiguous pieces
SegmentsOf(charstring) ==
    {Slice(charstring, i, j) : i \in 0..Len(charstring), j \in 1..Len(charstring)}
        \ {<<>>}

\* the substring tables over the keys: every key gets its own index and a
\* price
OptTables(keys) ==
    LET idx == CHOOSE f \in [keys -> 0..(Cardinality(keys) - 1)] :
                    \A a, b \in keys : f[a] = f[b] => a = b
    IN {[k \in keys |-> <<idx[k], price[k]>>] :
            price \in [keys -> {Fix(p) : p \in 1..MaxOptPrice}]}

InitOptimize ==
    /\ pc = "call"
    /\ glyph_set = <<>> /\ programs = <<>> /\ test_mode = FALSE /\ nrounds = 1
    /\ rev_keymap = <<>> /\ suffixes = <<>> /\ lcp = <<>>
    /\ min_freq = 2 /\ check_positive = TRUE /\ popped = <<>>
    /\ cand = <<>> /\ substrings = <<>>
    /\ run_count = 0 /\ encodings = <<>>
    /\ fdlen = 1 /\ fdselect = <<>> /\ subr_limit = 0 /\ nest_limit = 0
    /\ subrs = <<>> /\ bad_substrings = <<>> /\ gsubrs = <<>> /\ lsubrs = <<>>
    /\ cost_map \in OptCostMaps
    /\ \E charstring \in OptCharstrings :
        /\ data = <<charstring>>
        /\ \E keys \in {ks \in SUBSET SegmentsOf(charstring) :
                            Cardinality(ks) <= MaxOptEntries} :
            /\ substr_dict \in OptTables(keys)
            /\ \E skip_idx \in {None} \cup
                    {substr_dict[k][1] : k \in keys \cap {charstring}} :
                tasks = <<[charstring |-> charstring, skip_idx |-> skip_idx]>>
    /\ pending = {1}
    /\ results = <<NoResult>>

OptimizeCharstring ==
    /\ pc = "call"
    /\ results' = <<optimize_charstring(tasks[1].charstring, cost_map,
                                        substr_dict, tasks[1].skip_idx)>>
    /\ pending' = {}
    /\ pc' = "returned"
    /\ UNCHANGED <<inputVars, sweepVars, programs, finderVars, marketVars,
                   tasks, argVars, tableVars>>

NextOptimize == OptimizeCharstring

SpecOptimize == InitOptimize /\ [][NextOptimize]_vars

(***************************************************************************)
(* The reordering of one table (lines 813-828) for tables of any size up   *)
(* to NSUBRS_LIMIT.  The table is gsubrs, as the assignment leaves it:     *)
(* sorted by usages, here n subrs of usages n, n - 1, ..., 1.  The sizes   *)
(* are 0..MaxSmallTable and the sizes around the thresholds of the biases  *)
(* and of the slices.  update_position (line 828) gives the subr at index  *)
(* k of the reordered table the position k - 1.                            *)
(***************************************************************************)
MaxSmallTable == 50

InitReorder ==
    /\ pc = "reorder"
    /\ glyph_set = <<>> /\ programs = <<>> /\ test_mode = FALSE /\ nrounds = 1
    /\ rev_keymap = <<>> /\ cost_map = <<>> /\ data = <<>>
    /\ suffixes = <<>> /\ lcp = <<>>
    /\ min_freq = 2 /\ check_positive = TRUE /\ popped = <<>>
    /\ substrings = <<>> /\ substr_dict = EmptyDict
    /\ run_count = 0 /\ encodings = <<>>
    /\ tasks = <<>> /\ pending = {} /\ results = <<>>
    /\ fdlen = 1 /\ fdselect = <<>> /\ subr_limit = 65533 /\ nest_limit = 10
    /\ subrs = <<>> /\ bad_substrings = <<>> /\ lsubrs = <<<<>>>>
    /\ \E n \in (0..MaxSmallTable)
                \cup {214, 215, 216, 1239, 1240, 1241, 2264, 33899, 33900,
                      33901, 65533} :
        /\ cand = [k \in 1..n |-> PlacedSubr(n + 1 - k, <<0>>, TRUE)]
        /\ gsubrs = [k \in 1..n |-> k]

ReorderTable ==
    /\ pc = "reorder"
    /\ gsubrs' = Reorder(cand, gsubrs, calcSubrBias(gsubrs))
    /\ pc' = "reordered"
    /\ UNCHANGED <<inputVars, poolVars, sweepVars, programs, finderVars,
                   marketVars, argVars, cand, subrs, bad_substrings, lsubrs>>

NextReorder == ReorderTable

SpecReorder == InitReorder /\ [][NextReorder]_vars

(***************************************************************************)
(* The properties.                                                         *)
(***************************************************************************)
Assembled == pc \in {"apply", "done"}
Assigning == pc \in {"assign", "emit", "apply", "done", "TypeError"}
MarketDone == pc \in {"post", "assign", "emit", "apply", "done", "TypeError"}
Extracted == pc \notin {"start", "remapped", "sorted", "lcp"}

Tables == <<gsubrs>> \o lsubrs
Placed == UNION {SeqToSet(Tables[t]) : t \in 1..Len(Tables)}
Occurrences(table, o) == Cardinality({k \in 1..Len(table) : table[k] = o})

\* the bias of a CFF subrs INDEX of n entries
CffBias(n) == IF n < 1240 THEN 107 ELSE IF n < 33900 THEN 1131 ELSE 32768

ProgramsOf(table) == [k \in 1..Len(table) |-> cand[table[k]].program]

IsCallAt(p) ==
    /\ Len(p) >= 2
    /\ p[1].kind = "int"
    /\ p[2] \in {StrTok("callsubr"), StrTok("callgsubr")}

\* the body of entry idx (1-based) of table, without a final return
SubrBody(table, idx) ==
    IF idx \in 1..Len(table)
    THEN LET b == ProgramsOf(table)[idx] IN
         IF b # <<>> /\ b[Len(b)] = StrTok("return")
         THEN SubSeq(b, 1, Len(b) - 1) ELSE b
    ELSE <<StrTok("no such subr")>>

\* program p of a glyph of font dict fd with every call replaced by the
\* body it names, to depth fuel
RECURSIVE Substitute(_, _, _)
Substitute(p, fd, fuel) ==
    IF p = <<>> THEN <<>>
    ELSE IF IsMaskOp(p[1]) /\ Len(p) >= 2
    THEN <<p[1], p[2]>> \o Substitute(SubSeq(p, 3, Len(p)), fd, fuel)
    ELSE IF fuel > 0 /\ IsCallAt(p)
    THEN LET table == IF p[2].s = "callgsubr" THEN gsubrs
                      ELSE At(lsubrs, fd)
         IN Substitute(SubrBody(table, p[1].n + CffBias(Len(table)) + 1),
                       fd, fuel - 1)
            \o Substitute(SubSeq(p, 3, Len(p)), fd, fuel)
    ELSE <<p[1]>> \o Substitute(Tail(p), fd, fuel)

\* C1: once the glyph programs are rewritten, replacing every call of a
\* glyph's program, recursively, by the body of the subr at operand + bias
\* of the table it names (without its final return) gives back exactly the
\* glyph's original tokens.
C1_SemanticEquivalence ==
    pc = "done" =>
        \A g \in 1..Len(programs) :
            Substitute(programs[g], SelOf(fdselect, g - 1), Len(cand) + 1)
                = glyph_set[g]

\* the same tokens in the same order, an int and a real of the same value
\* counting as the same token
SameTokens(p, q) ==
    Len(p) = Len(q) /\ \A k \in 1..Len(p) : PyEq(p[k], q[k])

\* what is left of C1: the substitution gives back the original tokens up
\* to the type of a number, whenever the run ends
EquivalentUpToNumberType ==
    pc = "done" =>
        \A g \in 1..Len(programs) :
            SameTokens(Substitute(programs[g], SelOf(fdselect, g - 1),
                                  Len(cand) + 1),
                       glyph_set[g])

\* C1 holds of every corpus where no int meets a real of the same value
ExactWithoutMixedNumbers ==
    glyph_set # ScenarioMixed => C1_SemanticEquivalence

\* C2: at every step of the assignment loop and afterwards, the global
\* table and every local table hold at most subr_limit entries.
C2_Budget ==
    Assigning =>
        \A t \in 1..Len(Tables) : Len(Tables[t]) <= subr_limit

\* two font dicts, a full global table and a full local table while
\* survivors are still waiting
C2_Witness ==
    /\ pc = "assign"
    /\ fdlen = 2
    /\ subrs # <<>>
    /\ Len(gsubrs) = subr_limit
    /\ \E k \in 1..Len(lsubrs) : Len(lsubrs[k]) = subr_limit

\* the placed subrs that o calls, a substring outside the tables being
\* transparent
RECURSIVE PlacedCallees(_)
PlacedCallees(o) ==
    UNION {IF cand[o].encoding[k][2] \in Placed
           THEN {cand[o].encoding[k][2]}
           ELSE PlacedCallees(cand[o].encoding[k][2]) :
           k \in 1..Len(cand[o].encoding)}

\* the number of placed subrs on the longest chain of calls from o
RECURSIVE ChainLength(_)
ChainLength(o) ==
    LET below == {ChainLength(c) : c \in PlacedCallees(o)}
    IN 1 + (IF below = {} THEN 0
            ELSE CHOOSE n \in below : \A m \in below : m <= n)

\* the subrs taken out of the tables for their depth
Demoted == {o \in 1..Len(cand) : cand[o].max_call_depth # None /\ o \notin Placed}

\* C3: in the tables process_subrs returns, a chain of calls holds at most
\* nest_limit placed subrs, and the subrs demoted for their depth are the
\* deepest of their chains: a demoted subr calls no placed subr.
C3_Depth ==
    pc \in {"emit", "apply", "done"} =>
        /\ \A o \in Placed : ChainLength(o) <= nest_limit
        /\ \A o \in Demoted : cand[o].flatten /\ PlacedCallees(o) = {}

\* a placed subr at the limit that calls a demoted one
C3_Witness ==
    /\ pc = "done"
    /\ \E a \in Placed :
        /\ ChainLength(a) = nest_limit
        /\ \E k \in 1..Len(cand[a].encoding) :
                cand[a].encoding[k][2] \in Demoted

\* C4: when survivors remain with every table full, process_subrs flattens
\* them and returns: it never raises, and afterwards every survivor that
\* found no table is flattened.
C4_OverflowIsNotAnError ==
    /\ pc # "TypeError"
    /\ pc \in {"emit", "apply", "done"} =>
            \A k \in 1..Len(bad_substrings) : cand[bad_substrings[k]].flatten

\* C5: once process_subrs has returned, every active substring that is not
\* flattened is in exactly one table, once; in lsubrs[k] it is not global
\* and its fdidx is [k]; in gsubrs it is global.
C5_TableInvariant ==
    Assembled =>
        \A o \in SeqToSet(substrings) :
            ~cand[o].flatten =>
                /\ SumSeq([t \in 1..Len(Tables) |-> Occurrences(Tables[t], o)]) = 1
                /\ \A k \in 1..Len(lsubrs) :
                        o \in SeqToSet(lsubrs[k]) =>
                            ~cand[o].global /\ cand[o].fdidx = <<k - 1>>
                /\ o \in SeqToSet(gsubrs) => cand[o].global

\* a finished run with a global subr, a local subr and a flattened substring
C5_Witness ==
    /\ pc = "done"
    /\ gsubrs # <<>>
    /\ \E k \in 1..Len(lsubrs) : lsubrs[k] # <<>>
    /\ \E o \in SeqToSet(substrings) : cand[o].flatten

\* the suffix of data named by position idx of the suffix array
SuffixAt(r) == SuffixKey(data, suffixes[r])

\* a is lexicographically at most b
LexLeq(a, b) ==
    \E k \in 0..Min2(Len(a), Len(b)) :
        /\ SubSeq(a, 1, k) = SubSeq(b, 1, k)
        /\ \/ k = Len(a)
           \/ k < Len(b) /\ a[k + 1] < b[k + 1]

\* the length of the longest common prefix of a and b
CommonPrefix(a, b) ==
    CHOOSE k \in 0..Min2(Len(a), Len(b)) :
        /\ SubSeq(a, 1, k) = SubSeq(b, 1, k)
        /\ k < Min2(Len(a), Len(b)) => a[k + 1] # b[k + 1]

\* C6: get_suffixes orders every position of the corpus by its suffix,
\* non-decreasing, and get_lcp gives 0 at rank 0 and at every rank r >= 1
\* the length of the longest common prefix of the suffixes at ranks r - 1
\* and r.
C6_SuffixLcp ==
    pc \notin {"start", "remapped", "sorted"} =>
        /\ Len(suffixes) = SumSeq([g \in 1..Len(data) |-> Len(data[g])])
        /\ \A g \in 1..Len(data) : \A t \in 1..Len(data[g]) :
                \E r \in 1..Len(suffixes) : suffixes[r] = <<g - 1, t - 1>>
        /\ \A r \in 2..Len(suffixes) : LexLeq(SuffixAt(r - 1), SuffixAt(r))
        /\ Len(lcp) = Len(suffixes)
        /\ lcp[1] = 0
        /\ \A r \in 2..Len(lcp) :
                lcp[r] = CommonPrefix(SuffixAt(r - 1), SuffixAt(r))

\* two glyphs share an equal suffix and some neighbours share two codes
C6_Witness ==
    /\ pc = "lcp"
    /\ \E r \in 2..Len(suffixes) :
            /\ SuffixAt(r - 1) = SuffixAt(r)
            /\ suffixes[r - 1][1] # suffixes[r][1]
    /\ \E r \in 2..Len(lcp) : lcp[r] >= 2

\* C7 as amended: every emitted subr has length >= 1, and one of length 1
\* is a single code that costs at least 6 bytes.
C7_EmittedLength ==
    Assembled =>
        \A o \in Placed :
            /\ cand[o].length >= 1
            /\ cand[o].length = 1 => cost(data, cost_map, cand[o]) >= 6

\* C7 as stated: every emitted subr has length >= 2.
C7_LengthAtLeastTwo ==
    Assembled => \A o \in Placed : cand[o].length >= 2

\* a finished run that emitted a subr of one code, a fused hint-mask pair
C7_Witness ==
    /\ pc = "done"
    /\ \E o \in Placed :
            /\ cand[o].length = 1
            /\ At(rev_keymap, value(data, cand[o])[1]).kind = "tuple"

\* the substrings named by the items of an encoding
Named(enc) == {enc[k][2] : k \in 1..Len(enc)}

\* the substrings named by the glyph encodings and by the encodings of the
\* active substrings
Referenced ==
    UNION ({Named(encodings[g]) : g \in 1..Len(encodings)}
           \cup {Named(cand[o].encoding) : o \in SeqToSet(substrings)})

\* C8: after the last round of the market, every substring named by a
\* glyph's encoding or by an active substring's encoding has usages > 0.
C8_ReferencedAreUsed ==
    MarketDone => \A o \in Referenced : cand[o].usages > 0

\* the market is over, and a substring is named by another substring's
\* encoding but by no glyph's encoding
C8_Witness ==
    /\ pc = "post"
    /\ \E o \in Referenced :
            \A g \in 1..Len(encodings) : o \notin Named(encodings[g])
    /\ \E g \in 1..Len(encodings) : encodings[g] # <<>>

\* candidate o of the store: its tokens, frequency, cost and saving
IsCandidate(o, tokens, freq, c, sv) ==
    /\ TokensOf(data, rev_keymap, cand[o]) = tokens
    /\ cand[o].freq = freq
    /\ cost(data, cost_map, cand[o]) = c
    /\ subr_saving(data, cost_map, cand, o, FALSE, FALSE) = sv

S1Run == glyph_set = ScenarioS1 /\ ~test_mode /\ Extracted

NoOp ==
    /\ gsubrs = <<>>
    /\ \A k \in 1..Len(lsubrs) : lsubrs[k] = <<>>
    /\ programs = glyph_set

\* C9 as amended: on [[a,b,c,a,b,c]] with unit costs and min_freq = 2 the
\* extraction constructs two candidates, [a,b,c] (freq 2, cost 3, saving
\* -10) and [b,c] (freq 2, cost 2, saving -11); with check_positive both
\* are excluded, and compression is a no-op.
C9_ScenarioS1 ==
    S1Run =>
        /\ Len(cand) = 2
        /\ IsCandidate(1, <<IntTok(1), IntTok(2), StrTok("rlineto")>>, 2, 3, -10)
        /\ IsCandidate(2, <<IntTok(2), StrTok("rlineto")>>, 2, 2, -11)
        /\ substrings = <<>>
        /\ pc = "done" => NoOp

\* C9 as stated: exactly one candidate, [a,b,c], with freq 2, cost 3 and
\* saving -10, excluded by check_positive; compression is a no-op.
C9_OneCandidate ==
    S1Run =>
        /\ Len(cand) = 1
        /\ IsCandidate(1, <<IntTok(1), IntTok(2), StrTok("rlineto")>>, 2, 3, -10)
        /\ substrings = <<>>
        /\ pc = "done" => NoOp

\* scenario S1 run to its end
C9_Witness == S1Run /\ pc = "done" /\ Len(cand) = 2 /\ programs = ScenarioS1

\* C10: collapse_hintmask followed by expand_hintmask gives back the token
\* list: the same tokens in the same order.
C10_HintmaskRoundTrip ==
    pc = "expanded" => programs = glyph_set

\* a round trip of a list with two mask operators, one of them with mask
\* bytes that spell an operator's name
C10_Witness ==
    /\ pc = "expanded"
    /\ \E k \in 1..(Len(glyph_set[1]) - 1) :
            IsMaskOp(glyph_set[1][k]) /\ IsMaskOp(glyph_set[1][k + 1])
    /\ Cardinality({k \in 1..Len(glyph_set[1]) :
                        IsMaskOp(glyph_set[1][k])}) >= 3

\* the corpus positions (glyph, start) at which the value of c occurs
OccurrencesOf(c) ==
    {pos \in UNION {{<<g - 1, s>> : s \in 0..(Len(data[g]) - c.length)} :
                        g \in 1..Len(data)} :
        Slice(At(data, pos[1]), pos[2], pos[2] + c.length) = value(data, c)}

\* C11: the freq of every candidate that get_substrings returns is the
\* number of corpus positions at which its value occurs, overlaps included.
C11_FreqIsOccurrenceCount ==
    pc = "extracted" =>
        \A o \in SeqToSet(substrings) :
            cand[o].freq = Cardinality(OccurrencesOf(cand[o]))

\* what is left of C11: freq never counts more than the occurrences, and
\* counts at least one
FreqNeverOvercounts ==
    pc = "extracted" =>
        \A o \in SeqToSet(substrings) :
            /\ cand[o].freq >= 1
            /\ cand[o].freq <= Cardinality(OccurrencesOf(cand[o]))

\* the candidate built from the popped interval iv = <<l, start_idx, freq>>
IntervalSubr(iv) == CandidateSubr(iv[1], At(suffixes, iv[2]), iv[3])

\* the interval iv is one of the returned candidates
ReturnedFor(iv) ==
    {o \in SeqToSet(substrings) :
        /\ cand[o].length = iv[1]
        /\ cand[o].location = At(suffixes, iv[2])
        /\ cand[o].freq = iv[3]}

\* cost*freq - cost - 5*freq - 3 of the interval iv
IntervalSaving(iv) ==
    LET c == cost(data, cost_map, IntervalSubr(iv))
    IN c * iv[3] - c - 5 * iv[3] - 3

\* C12: an interval popped by the sweep is returned as a candidate, once,
\* if and only if its freq >= min_freq and (check_positive is false or its
\* saving is strictly positive); every returned candidate comes from a
\* popped interval and has length >= 1.
C12_KeepRule ==
    pc = "returned" =>
        /\ \A k \in 1..Len(popped) :
                IF /\ popped[k][3] >= min_freq
                   /\ (~check_positive \/ IntervalSaving(popped[k]) > 0)
                THEN Cardinality(ReturnedFor(popped[k])) = 1
                ELSE ReturnedFor(popped[k]) = {}
        /\ \A o \in SeqToSet(substrings) :
                /\ cand[o].length >= 1
                /\ \E k \in 1..Len(popped) : o \in ReturnedFor(popped[k])
        /\ \A k, m \in 1..Len(substrings) :
                substrings[k] = substrings[m] => k = m

\* check_positive is on, and an interval with freq = min_freq and saving 0
\* was popped and left out, next to one that was returned
C12_Witness ==
    /\ pc = "returned"
    /\ check_positive
    /\ substrings # <<>>
    /\ \E k \in 1..Len(popped) :
            /\ popped[k][3] = min_freq
            /\ IntervalSaving(popped[k]) = 0
            /\ ReturnedFor(popped[k]) = {}

\* the same interval is kept when check_positive is off
C12_KeptInTestMode ==
    /\ pc = "returned"
    /\ ~check_positive
    /\ \E k \in 1..Len(popped) :
            /\ popped[k][3] = min_freq
            /\ IntervalSaving(popped[k]) = 0
            /\ ReturnedFor(popped[k]) # {}

\* the task and the result of the one call of SpecOptimize
OptTask == tasks[1]
OptResult == results[1]

\* the segment [a, b) of the task's sequence is priced by the table
InTable(a, b) ==
    LET key == Slice(OptTask.charstring, a, b) IN
    key \in DOMAIN substr_dict /\ substr_dict[key][1] # OptTask.skip_idx

\* the cost of the segment [a, b): its table price, or the sum of the costs
\* of its tokens
SegmentCost(a, b) ==
    IF InTable(a, b) THEN substr_dict[Slice(OptTask.charstring, a, b)][2]
    ELSE Fix(SumSeq([k \in 1..(b - a) |->
                        At(cost_map, At(OptTask.charstring, a + k - 1))]))

\* the cost of cutting [from, n) at the points of cut
CutCost(from, cut) ==
    LET n == Len(OptTask.charstring)
        points == cut \cup {from, n}
        NextPoint(a) == CHOOSE b \in points :
                            b > a /\ \A c \in points : c > a => b <= c
    IN SumSeq([k \in 1..n |->
                IF (k - 1) \in points \ {n}
                THEN SegmentCost(k - 1, NextPoint(k - 1)) ELSE 0])

\* the least cost of [from, n) over all the ways of cutting it
MinCost(from) ==
    LET n == Len(OptTask.charstring)
        costs == {CutCost(from, cut) : cut \in SUBSET ((from + 1)..(n - 1))}
    IN IF from >= n THEN 0
       ELSE CHOOSE c \in costs : \A other \in costs : c <= other

\* the smallest end j of a first segment of [from, n) on a cheapest cut
SmallestBestEnd(from) ==
    LET n == Len(OptTask.charstring)
        Best(j) == SegmentCost(from, j) + MinCost(j) = MinCost(from)
    IN CHOOSE j \in (from + 1)..n :
            Best(j) /\ \A k \in (from + 1)..n : Best(k) => j <= k

\* the table segments of the cut that takes the smallest best end at every
\* position from from on, as items <<start, idx>>
RECURSIVE TableSegmentsFrom(_)
TableSegmentsFrom(from) ==
    IF from >= Len(OptTask.charstring) THEN <<>>
    ELSE LET j == SmallestBestEnd(from) IN
         (IF InTable(from, j)
          THEN <<<<from, substr_dict[Slice(OptTask.charstring, from, j)][1]>>>>
          ELSE <<>>)
         \o TableSegmentsFrom(j)

\* the length of the table entry idx
EntryLength(idx) ==
    Len(CHOOSE k \in DOMAIN substr_dict : substr_dict[k][1] = idx)

InMarket == pc \in {"extracted", "price", "encode_substrings",
                    "encode_charstrings", "recount", "prune"}

\* this step takes a substring off the active list or a key off the table
RemovesSubstring ==
    \/ \E o \in SeqToSet(substrings) : o \notin SeqToSet(substrings')
    \/ \E k \in DOMAIN substr_dict : k \notin DOMAIN substr_dict'

\* C14 as amended: substrings are removed only by the pruning step, with
\* test_mode off, in rounds 1 .. NROUNDS-1; in the last round, and in every
\* round under test_mode, nothing is removed.
C14_PruningSchedule ==
    [][InMarket /\ RemovesSubstring =>
            /\ pc = "prune"
            /\ ~test_mode
            /\ run_count + 1 \in 1..(nrounds - 1)]_vars

\* C14 as stated: substrings are removed only in rounds 1 .. NROUNDS-2.
C14_NotInLastTwoRounds ==
    [][InMarket /\ RemovesSubstring =>
            /\ pc = "prune"
            /\ ~test_mode
            /\ run_count + 1 \in 1..(nrounds - 2)]_vars

\* the round before the last has just pruned a substring away
C14_Witness ==
    /\ pc = "price"
    /\ ~test_mode
    /\ run_count = nrounds - 1
    /\ \E o \in 1..Len(cand) :
            cand[o].usages # None /\ o \notin SeqToSet(substrings)
    /\ substrings # <<>>

\* the price update of the round is finished: the table holds the index
\* and the price of every active substring
PricesUpdated ==
    \A k \in 1..Len(substrings) :
        LET key == value(data, cand[substrings[k]]) IN
        /\ key \in DOMAIN substr_dict
        /\ substr_dict[key] = <<k - 1, cand[substrings[k]].price>>

\* the self-encoding of every active substring is finished and stored
SubstringsEncoded ==
    \A k \in 1..Len(substrings) :
        LET r == optimize_charstring(value(data, cand[substrings[k]]),
                                     cost_map, substr_dict, k - 1)
        IN /\ cand[substrings[k]].encoding
                    = ResolveEncoding(substrings, r.encoding)
           /\ cand[substrings[k]].adjusted_cost = r.market_cost

\* the encoding of every glyph is finished and stored
CharstringsEncoded ==
    /\ Len(encodings) = Len(data)
    /\ \A g \in 1..Len(data) :
            encodings[g] = ResolveEncoding(substrings,
                optimize_charstring(data[g], cost_map, substr_dict, None).encoding)

\* the usages are those of this round's encodings
Recounted ==
    \A o \in SeqToSet(substrings) :
        cand[o].usages
            = SumSeq([k \in 1..Len(substrings) |->
                        CallsIn(cand[substrings[k]].encoding, o)])
              + SumSeq([g \in 1..Len(encodings) |-> CallsIn(encodings[g], o)])

\* the steps of a round between the price update and the pruning
BetweenPriceAndPrune ==
    pc \in {"encode_substrings", "substring_tasks", "encode_charstrings",
            "charstring_tasks", "recount"}

\* where each step of a round hands over to
RoundOrder ==
    {<<"price", "encode_substrings">>,
     <<"encode_substrings", "substring_tasks">>,
     <<"substring_tasks", "encode_charstrings">>,
     <<"encode_charstrings", "charstring_tasks">>,
     <<"charstring_tasks", "recount">>,
     <<"recount", "prune">>,
     <<"prune", "price">>, <<"prune", "post">>}

\* C15: in every round the price updates are finished before a substring
\* task starts, the substring encodings are finished and stored before a
\* charstring task starts, the recount starts after every charstring
\* encoding is finished, the pruning comes after the recount, and the
\* substring table is not written between the price update and the pruning.
C15_RoundStepOrder ==
    /\ [](/\ BetweenPriceAndPrune => PricesUpdated
          /\ pc \in {"encode_charstrings", "charstring_tasks", "recount"}
                => SubstringsEncoded
          /\ pc = "recount" => pending = {} /\ CharstringsEncoded
          /\ pc = "prune" => CharstringsEncoded /\ Recounted)
    /\ [][/\ BetweenPriceAndPrune => substr_dict' = substr_dict
          /\ results' # results =>
                pc' \in {"substring_tasks", "charstring_tasks"}
          /\ (pc' # pc /\ (BetweenPriceAndPrune \/ pc \in {"price", "prune"}))
                => <<pc, pc'>> \in RoundOrder]_vars

\* the second round: some charstring tasks have run and some have not, and
\* the substrings have encodings that call other substrings
C15_Witness ==
    /\ pc = "charstring_tasks"
    /\ run_count = 1
    /\ pending # {}
    /\ \E k \in 1..Len(results) : k \notin pending
    /\ \E o \in SeqToSet(substrings) : cand[o].encoding # <<>>

Popped == subrs[Len(subrs)]

\* the local table of the popped survivor's first fd
PoppedLocal == At(lsubrs, cand[Popped].fdidx[1])

\* C17: a survivor of one fd, with room in the global table and in its
\* local table, goes to the global table exactly when test_call_cost is
\* strictly smaller there, and to its local table otherwise; a survivor of
\* several fds goes to the global table when that has room, and is
\* flattened otherwise, whatever room the local tables have.
C17_PlacementDecision ==
    [][(pc = "assign" /\ subrs # <<>> /\ subrs' # subrs) =>
        /\ (/\ Len(cand[Popped].fdidx) = 1
            /\ Len(gsubrs) < subr_limit
            /\ Len(PoppedLocal) < subr_limit) =>
                IF test_call_cost(cand, Popped, gsubrs)
                        < test_call_cost(cand, Popped, PoppedLocal)
                THEN /\ Popped \in SeqToSet(gsubrs')
                     /\ lsubrs' = lsubrs /\ bad_substrings' = bad_substrings
                ELSE /\ Popped \in SeqToSet(At(lsubrs', cand[Popped].fdidx[1]))
                     /\ gsubrs' = gsubrs /\ bad_substrings' = bad_substrings
        /\ Len(cand[Popped].fdidx) >= 2 =>
                IF Len(gsubrs) < subr_limit
                THEN /\ Popped \in SeqToSet(gsubrs')
                     /\ lsubrs' = lsubrs /\ bad_substrings' = bad_substrings
                ELSE /\ bad_substrings' = Append(bad_substrings, Popped)
                     /\ gsubrs' = gsubrs /\ lsubrs' = lsubrs]_vars

\* a survivor of one fd went to the global table because a call is cheaper
\* there: its local table has room and 215 subrs used at least as much
C17_Witness ==
    /\ pc = "assign"
    /\ \E o \in SeqToSet(gsubrs) :
            /\ Len(cand[o].fdidx) = 1
            /\ cand[o].global
            /\ Len(lsubrs[cand[o].fdidx[1] + 1]) >= 215
            /\ Len(lsubrs[cand[o].fdidx[1] + 1]) < subr_limit
            /\ Len(gsubrs) <= 215
            /\ test_call_cost(cand, o, lsubrs[cand[o].fdidx[1] + 1]) = 2

\* a survivor of two fds was flattened with the global table full and room
\* in both local tables
C17_MultiFdFlattened ==
    /\ pc = "assign"
    /\ \E k \in 1..Len(bad_substrings) :
            Len(cand[bad_substrings[k]].fdidx) = 2
    /\ Len(gsubrs) = subr_limit
    /\ \A k \in 1..Len(lsubrs) : Len(lsubrs[k]) < subr_limit


(***************************************************************************)
(* The calls update_program emits, by the fd context of the caller.        *)
(***************************************************************************)
\* the programs have been written by update_program without a failure
Emitted == pc \in {"apply", "done"}

\* the placed, non-global substrings an encoding calls
LocalCallees(enc) ==
    {c \in {enc[k][2] : k \in 1..Len(enc)} :
        ~cand[c].flatten /\ ~cand[c].global}

\* the callers with an fd context, as <<fd, encoding>>: the glyphs (line 528)
\* and the subrs of the local tables (line 845)
FdCallers ==
    {<<SelOf(fdselect, g - 1), encodings[g]>> : g \in 1..Len(encodings)}
    \cup UNION {{<<k - 1, cand[o].encoding>> : o \in SeqToSet(lsubrs[k])} :
                    k \in 1..Len(lsubrs)}

\* the callers without one: the global subrs (line 845, sel None) and the
\* flattened bodies (line 835)
NoFdCallers ==
    SeqToSet(gsubrs)
    \cup {o \in SeqToSet(bad_substrings) : Len(cand[o].fdidx) > 0}

\* C18 (amended): no run fails an assertion of update_program; a call to a
\* non-global placed substring from a program with fd context k goes to a
\* substring whose fdidx is exactly <<k>>; a caller without fd context may
\* call a non-global placed substring too, which then has exactly one fd,
\* the only fd of the caller.
C18_CrossFdCalls ==
    /\ pc # "AssertionError"
    /\ Emitted =>
        /\ \A caller \in FdCallers : \A c \in LocalCallees(caller[2]) :
                cand[c].fdidx = <<caller[1]>>
        /\ \A o \in NoFdCallers : \A c \in LocalCallees(cand[o].encoding) :
                /\ Len(cand[c].fdidx) = 1
                /\ cand[o].fdidx = cand[c].fdidx

\* C18 (as stated): moreover a caller without fd context calls only global
\* placed substrings whenever update_program has not failed.
C18_NoFdCallsOnlyGlobal ==
    Emitted => \A o \in NoFdCallers : LocalCallees(cand[o].encoding) = {}

\* a run over two fds ends with a glyph of fd 1 calling a subr of local
\* table 1
C18_Witness ==
    /\ pc = "done"
    /\ fdlen = 2
    /\ \E caller \in FdCallers :
        /\ caller[1] = 1
        /\ LocalCallees(caller[2]) # {}

\* a global subr calls a subr of a local table
C18_GlobalCallsLocal ==
    /\ Emitted
    /\ \E o \in SeqToSet(gsubrs) : LocalCallees(cand[o].encoding) # {}


(***************************************************************************)
(* The call operands after the reordering.                                 *)
(***************************************************************************)
\* the subr is one of the m most used of the table (the usages differ)
AmongMostUsed(o, m) == cand[o].usages > Len(gsubrs) - m

\* the call operand of the subr at index k of the reordered table
CallOperand(k) == (k - 1) - calcSubrBias(gsubrs)

\* C19: after the reordering each of the min(n, 215) most-used subrs of a
\* table of n subrs has a call operand in -107..107.
C19_MostUsedSingleByte ==
    pc = "reordered" =>
        \A k \in 1..Len(gsubrs) :
            AmongMostUsed(gsubrs[k], Min2(Len(gsubrs), 215))
                => CallOperand(k) \in -107..107

\* what holds for every size: the operands of the min(n, 215) most-used
\* subrs are in -108..107
C19_MostUsedWithin108 ==
    pc = "reordered" =>
        \A k \in 1..Len(gsubrs) :
            AmongMostUsed(gsubrs[k], Min2(Len(gsubrs), 215))
                => CallOperand(k) \in -108..107

\* a table of 33900 subrs: the most-used subr has the operand -108
C19_Operand108 ==
    /\ pc = "reordered"
    /\ Len(gsubrs) = 33900
    /\ \E k \in 1..Len(gsubrs) : gsubrs[k] = 1 /\ CallOperand(k) = -108


(***************************************************************************)
(* The call graph over the substrings.                                     *)
(***************************************************************************)
\* the substrings referenced in the encoding of substring o
EncodingRefs(o) == {cand[o].encoding[k][2] : k \in 1..Len(cand[o].encoding)}

\* C20: in every round every substring referenced in the encoding of a
\* substring s is another substring, strictly shorter than s; so no
\* substring selects itself and the call graph has no cycle.
C20_CalleesShorter ==
    \A o \in 1..Len(cand) : \A c \in EncodingRefs(o) :
        /\ c # o
        /\ cand[c].length < cand[o].length

\* in a later round a substring has been encoded with a call of another
\* substring, which calls a third one
C20_Witness ==
    /\ run_count >= 1
    /\ pc = "encode_charstrings"
    /\ \E o \in SeqToSet(substrings) : \E c \in EncodingRefs(o) :
            EncodingRefs(c) # {}


(***************************************************************************)
(* The substring table at the start of the two encoding stages.            *)
(***************************************************************************)
\* a parallel encoding stage is about to start (lines 635 and 649)
StageStarts == pc \in {"encode_substrings", "encode_charstrings"}

\* substr.value() of the substring o of the store
ValueOf(o) == value(data, cand[o])

\* the substrings that a pruning of an earlier round has removed
PrunedEarlier == {o \in 1..Len(cand) : o \notin SeqToSet(substrings)}

\* C21: at the start of each encoding stage of every round the table has
\* exactly one entry per active substring, keyed by its value; no two
\* active substrings have the same value; the index stored for a value is
\* the index of that substring in the active list; and no substring pruned
\* in an earlier round has an entry.
C21_TableConsistent ==
    StageStarts =>
        /\ DOMAIN substr_dict = {ValueOf(o) : o \in SeqToSet(substrings)}
        /\ \A i, j \in 1..Len(substrings) :
                ValueOf(substrings[i]) = ValueOf(substrings[j]) => i = j
        /\ \A i \in 1..Len(substrings) :
                /\ substr_dict[ValueOf(substrings[i])][1] = i - 1
                /\ cand[substrings[i]].list_idx = i - 1
        /\ \A o \in PrunedEarlier : ValueOf(o) \notin DOMAIN substr_dict

\* the second round starts an encoding stage after a pruning that has
\* removed a substring and kept two
C21_Witness ==
    /\ StageStarts
    /\ run_count = 1
    /\ PrunedEarlier # {}
    /\ Len(substrings) >= 2


(***************************************************************************)
(* The usages during iterative_encode.                                     *)
(***************************************************************************)
\* the set-up of lines 617-623 is done and process_subrs is not yet called
Encoding == pc \in {"price", "encode_substrings", "encode_charstrings",
                    "recount", "prune", "pruning", "post"}

\* the substrings that get_substrings returned: the set-up has given them
\* a price, and the pruning may have removed them since
SetUpSubstrings == {o \in 1..Len(cand) : cand[o].price # None}

\* C22: at every point of iterative_encode, also after every single
\* statement of the redistribution of the pruning, taken in any order of
\* the bad substrings, the usages of every substring are >= 0.
C22_UsagesNonNegative ==
    Encoding => \A o \in SetUpSubstrings : cand[o].usages >= 0

\* the redistribution has just taken one use from a substring called by a
\* bad substring that has no uses itself
C22_Witness ==
    /\ pc = "pruning" /\ tasks # <<>>
    /\ tasks[1].k > 1
    /\ cand[tasks[1].bad].usages = 0


(***************************************************************************)
(* The closure of the reachability marking.                                *)
(***************************************************************************)
\* the fds that reach the substring o
FdSet(o) == SeqToSet(cand[o].fdidx)

\* the substrings called from the glyph g
GlyphRefs(g) == {encodings[g][k][2] : k \in 1..Len(encodings[g])}

\* C23: after the marking every substring in the encoding of a glyph of
\* fd k has k in its fdidx; the fdidx of a substring is within the fdidx
\* of every substring in its encoding, so a substring with a non-empty
\* fdidx never calls one with an empty fdidx; and a substring in local
\* table k is called only from glyphs of fd k and from substrings whose
\* fdidx is within {k}.
C23_ReachabilityClosure ==
    Assigning =>
        /\ \A g \in 1..Len(encodings) : \A c \in GlyphRefs(g) :
                SelOf(fdselect, g - 1) \in FdSet(c)
        /\ \A s \in 1..Len(cand) : \A c \in EncodingRefs(s) :
                /\ FdSet(s) \subseteq FdSet(c)
                /\ FdSet(s) # {} => FdSet(c) # {}
        /\ \A k \in 1..Len(lsubrs) : \A c \in SeqToSet(lsubrs[k]) :
                /\ \A g \in 1..Len(encodings) :
                        c \in GlyphRefs(g) => SelOf(fdselect, g - 1) = k - 1
                /\ \A s \in 1..Len(cand) :
                        c \in EncodingRefs(s) => FdSet(s) \subseteq {k - 1}

\* a run over two fds ends with a subr of local table 1 that is called from
\* a substring reached from fd 1 only
C23_Witness ==
    /\ pc = "done"
    /\ fdlen = 2
    /\ \E c \in SeqToSet(lsubrs[2]) : \E s \in 1..Len(cand) :
            /\ c \in EncodingRefs(s)
            /\ FdSet(s) = {1}

\* a substring reached from both fds calls another substring
C23_BothFds ==
    /\ pc = "done"
    /\ \E s \in 1..Len(cand) :
            /\ FdSet(s) = {0, 1}
            /\ EncodingRefs(s) # {}

=============================================================================
